---- MODULE Spec2Model ----
(***************************************************************************)
(* Model of NotationParts (src/src/notation/internal/notationparts.cpp):   *)
(* the editor of the parts, instruments and staves of a score.             *)
(*                                                                         *)
(* A score is a sequence of parts.  A part has an identifier, a mapping    *)
(* tick -> instrument id (Ms::InstrumentList, a std::map keyed by tick),   *)
(* a sequence of staff identifiers, a name, a show flag and the ticks of   *)
(* its chords and rests.  Score 0 is the master score, the other scores    *)
(* are the part scores of its excerpts.  ics is the set of                 *)
(* InstrumentChange elements of the current score.  Every public          *)
(* operation of the editor is one action; the begin/commit framing and    *)
(* the notifications it issues are recorded, in the order of issue, in    *)
(* the variable log.  staffs holds the settings of the staves of the      *)
(* current score, selection the selected chord or rest, and               *)
(* partsNotifiers and instrumentsNotifiers the channels the editor has    *)
(* made, each with the number it got when it was made.                    *)
(* canChangeInstrumentsVisibilityHash holds, for every key (part id,      *)
(* instrument id) that was asked for, the value kept for it.              *)
(***************************************************************************)
EXTENDS Integers, Sequences, FiniteSets, TLC

\* ---------------------------------------------------------------- bounds
MaxParts == 2
MaxList == 2
MaxTick == 4
MaxBatch == 2
MaxSteps == 2
MaxStaffArg == 3

\* ------------------------------------------------------------- constants
InstrIds == {"a", "b"}
NoInstr == ""
InitialTick == -1
Master == 0
NoPart == -1
ScoreIds == {0, 1, 2}
PartIds == 0..MaxParts
Modes == {"Before", "After"}
Voices == {0, 1}
StaffArgs == 0..MaxStaffArg

VARIABLES scores, excerpts, cur, ics, measures, log, lastOp, fault, steps, staffs, selection, partsNotifiers, instrumentsNotifiers, canChangeInstrumentsVisibilityHash

vars == <<scores, excerpts, cur, ics, measures, log, lastOp, fault, steps, staffs, selection, partsNotifiers, instrumentsNotifiers, canChangeInstrumentsVisibilityHash>>

\* ------------------------------------------------------ sequence helpers
Range(s) == {s[i] : i \in DOMAIN s}

Min(S) == CHOOSE x \in S : \A y \in S : x <= y

Max(S) == CHOOSE x \in S : \A y \in S : y <= x

RemoveAt(s, i) == SubSeq(s, 1, i - 1) \o SubSeq(s, i + 1, Len(s))

\* QList::insert(i, x) with a 0-based index; an index outside the list is
\* clamped (prepend below 0, append above size).
InsertAt(s, i, x) ==
    LET k == IF i < 0 THEN 0 ELSE IF i > Len(s) THEN Len(s) ELSE i
    IN SubSeq(s, 1, k) \o <<x>> \o SubSeq(s, k + 1, Len(s))

RECURSIVE SetToSortedSeq(_)
SetToSortedSeq(S) ==
    IF S = {} THEN <<>>
    ELSE LET x == Min(S) IN <<x>> \o SetToSortedSeq(S \ {x})

RECURSIVE FlattenSeq(_)
FlattenSeq(ss) ==
    IF ss = <<>> THEN <<>> ELSE Head(ss) \o FlattenSeq(Tail(ss))

SeqsUpTo(S, n) == UNION {[1..k -> S] : k \in 0..n}

\* ------------------------------------------- instrument mapping of a part
\* Part::setInstrument(instrument, tick): insert or overwrite.
SetInstrument(m, t, id) ==
    [x \in (DOMAIN m) \cup {t} |-> IF x = t THEN id ELSE m[x]]

Restrict(m, D) == [x \in D |-> m[x]]

\* Part::instrument(tick): the entry with the greatest tick <= the given
\* one, the default instrument when there is none.
InstrumentAt(m, t) ==
    LET below == {k \in DOMAIN m : k <= t}
    IN IF below = {} THEN NoInstr ELSE m[Max(below)]

\* NotationParts::instruments(part): the mapping as a QMap, keys ascending.
Keys(m) == SetToSortedSeq(DOMAIN m)

Values(m) == LET ks == Keys(m) IN [i \in 1..Len(ks) |-> m[ks[i]]]

HasInstrument(m, id) == \E k \in DOMAIN m : m[k] = id

\* NotationParts::instrumentInfo(id, part).fraction: the first tick, in
\* ascending order, whose instrument has the id.
InfoTick(m, id) == Min({k \in DOMAIN m : m[k] = id})

\* Part::removeInstrument(instrumentId): erases the first entry with the id.
RemoveInstrument(m, id) ==
    IF HasInstrument(m, id) THEN Restrict(m, (DOMAIN m) \ {InfoTick(m, id)})
    ELSE m

\* The ids given to instruments(part, filter): an empty filter accepts all.
FilterInstruments(m, filter) ==
    IF filter = <<>> THEN m
    ELSE Restrict(m, {k \in DOMAIN m : m[k] \in Range(filter)})

\* Instrument::trackName of the instrument with the id.
TrackName(id) == id

\* QStringList::join(" & "): the separator between any two names.
RECURSIVE Join(_)
Join(names) ==
    IF names = <<>> THEN <<>>
    ELSE IF Len(names) = 1 THEN names
    ELSE <<Head(names), " & ">> \o Join(Tail(names))

formatPartName(p) ==
    Join([i \in 1..Len(Values(p.instr)) |-> TrackName(Values(p.instr)[i])])

\* Instrument::staves of the instrument template with the id.
NStaves(id) == IF id = "b" THEN 2 ELSE 1

mainInstrumentId(p) == InstrumentAt(p.instr, InitialTick)

\* ---------------------------------------------------------------- events
Ev(kind, part, instr) == [ev |-> kind, part |-> part, instr |-> instr]

Begin == Ev("begin", NoPart, NoInstr)

Commit == Ev("commit", NoPart, NoInstr)

PartsChanged == Ev("partsChanged", NoPart, NoInstr)

PartsListChanged == Ev("parts.changed", NoPart, NoInstr)

PartItemChanged(id) == Ev("parts.itemChanged", id, NoInstr)

InstrItemAdded(id, instr) == Ev("instruments.itemAdded", id, instr)

InstrItemChanged(id, instr) == Ev("instruments.itemChanged", id, instr)

InstrItemReplaced(id, old, new) ==
    [ev |-> "instruments.itemReplaced", part |-> id, instr |-> old, new |-> new]

\* The events of the channel of the staves of the instrument of the part.
StaffEv(kind, id, instr, staff) == [ev |-> kind, part |-> id, instr |-> instr, staff |-> staff]

StaffItemChanged(id, instr, staff) == StaffEv("staves.itemChanged", id, instr, staff)

StaffItemAdded(id, instr, staff) == StaffEv("staves.itemAdded", id, instr, staff)

\* --------------------------------------------------------- part look-ups
\* A reference <<s, i>> names the i-th part of score s.
ScoreRefs(sc, s) == [i \in 1..Len(sc[s]) |-> <<s, i>>]

excerptParts(sc, ex, s) ==
    IF s # Master THEN <<>>
    ELSE FlattenSeq([e \in 1..Len(ex) |-> ScoreRefs(sc, ex[e])])

availableParts(sc, ex, s) == ScoreRefs(sc, s) \o excerptParts(sc, ex, s)

PartOf(sc, r) == sc[r[1]][r[2]]

\* Every reference kept, whatever ids were seen.
KeepAllRefs(sc, refs, seen) == refs

RECURSIVE DedupRefs(_, _, _)
DedupRefs(sc, refs, seen) ==
    IF refs = <<>> THEN <<>>
    ELSE LET id == PartOf(sc, Head(refs)).id
         IN IF id \in seen THEN DedupRefs(sc, Tail(refs), seen)
            ELSE <<Head(refs)>> \o DedupRefs(sc, Tail(refs), seen \cup {id})

\* NotationParts::partList as references, and as parts.
partListRefs(sc, ex, s) == DedupRefs(sc, availableParts(sc, ex, s), {})

partListOf(sc, ex, s) ==
    LET refs == partListRefs(sc, ex, s)
    IN [i \in 1..Len(refs) |-> PartOf(sc, refs[i])]

partList == partListOf(scores, excerpts, cur)

\* NotationParts::part(id, score): the first available part with the id.
HasPart(sc, ex, s, id) ==
    \E i \in DOMAIN availableParts(sc, ex, s) :
        PartOf(sc, availableParts(sc, ex, s)[i]).id = id

PartRef(sc, ex, s, id) ==
    LET refs == availableParts(sc, ex, s)
        i == Min({j \in DOMAIN refs : PartOf(sc, refs[j]).id = id})
    IN refs[i]

IndexOfPart(parts, id) == Min({j \in DOMAIN parts : parts[j].id = id})

InScore(parts, id) == \E j \in DOMAIN parts : parts[j].id = id

StaffCount(parts) == Len(FlattenSeq([i \in DOMAIN parts |-> parts[i].staves]))

UsedPartIds(sc) == UNION {{sc[s][i].id : i \in DOMAIN sc[s]} : s \in ScoreIds}

UsedStaffIds(sc) ==
    UNION {UNION {Range(sc[s][i].staves) : i \in DOMAIN sc[s]} : s \in ScoreIds}

\* Part::makeId / Staff::makeId: an identifier no part (staff) carries.
FreshId(used) == Min((0..Cardinality(used)) \ used)

\* ------------------------------------------------- the score as a value
\* The operations below transform a record W: sc the scores, ex the
\* excerpts of the master score, ic the InstrumentChange elements and ms
\* whether the current score has a measure; ok is FALSE once an assertion
\* failed or a list was read out of range.
\* pids and sids are the part and staff identifiers in use when the
\* operation began or made since: a new identifier is none of them.
\* st are the settings of the staves, sel the selected chord or rest, pn
\* and sn the channels of the parts and of the instruments.
World ==
    [sc |-> scores, ex |-> excerpts, ic |-> ics, ms |-> measures, ok |-> TRUE,
     pids |-> UsedPartIds(scores), sids |-> UsedStaffIds(scores),
     st |-> staffs, sel |-> selection,
     pn |-> partsNotifiers, sn |-> instrumentsNotifiers]

SetPart(W, r, p) == [W EXCEPT !.sc[r[1]][r[2]] = p]

\* NotationParts::instrumentChangeElements(partId): ticks of the elements.
instrumentChangeTicks(ic, id) == {c.tick : c \in {x \in ic : x.part = id}}

\* NotationParts::chordRest(fraction, part) finds a chord or rest.
HasChordRest(p, t) == t \in p.crs

\* The loop of doRemoveInstruments on the mapping: the mapping left and the
\* ticks of the removed entries.
RECURSIVE RemoveIds(_, _)
RemoveIds(m, ids) ==
    IF ids = <<>> THEN [m |-> m, ticks |-> {}]
    ELSE IF ~HasInstrument(m, Head(ids)) THEN RemoveIds(m, Tail(ids))
    ELSE LET t == InfoTick(m, Head(ids))
             r == RemoveIds(RemoveInstrument(m, Head(ids)), Tail(ids))
         IN [m |-> r.m, ticks |-> r.ticks \cup {t}]

doRemoveInstruments(W, ids, r) ==
    LET p == PartOf(W.sc, r)
        res == RemoveIds(p.instr, ids)
    IN [SetPart(W, r, [p EXCEPT !.instr = res.m]) EXCEPT
           !.ic = {c \in W.ic : ~(c.part = p.id /\ c.tick \in res.ticks)}]

\* Score::cmdRemovePart on one score: the part, its staves and the elements
\* on them go; a null part is ignored.
RemovePartById(parts, id) ==
    IF InScore(parts, id) THEN RemoveAt(parts, IndexOfPart(parts, id)) ELSE parts

RemoveFromOthers(sc, ex, id) ==
    [s \in ScoreIds |->
        IF s # cur /\ s \in Range(ex) THEN RemovePartById(sc[s], id) ELSE sc[s]]

RECURSIVE doRemoveParts(_, _)
doRemoveParts(W, ids) ==
    IF ids = <<>> THEN W
    ELSE LET id == Head(ids)
             here == InScore(W.sc[cur], id)
             sc1 == [W.sc EXCEPT ![cur] = RemovePartById(@, id)]
             sc2 == IF cur = Master THEN RemoveFromOthers(sc1, W.ex, id) ELSE sc1
             ic1 == IF here THEN {c \in W.ic : c.part # id} ELSE W.ic
         IN doRemoveParts([W EXCEPT !.sc = sc2, !.ic = ic1], Tail(ids))

\* No instrument counted as missing.
MissingNone(m, newIds) == <<>>

MissingOf(m, newIds) ==
    LET vs == Values(m)
        Test(x) == x \notin Range(newIds)
    IN SelectSeq(vs, Test)

RECURSIVE RemoveMissingLoop(_, _, _, _)
RemoveMissingLoop(W, refs, newIds, partsToRemove) ==
    IF refs = <<>> THEN doRemoveParts(W, partsToRemove)
    ELSE LET p == PartOf(W.sc, Head(refs))
             instrumentsToRemove == MissingOf(p.instr, newIds)
             removeAllInstruments ==
                 Len(instrumentsToRemove) = Cardinality(DOMAIN p.instr)
         IN IF removeAllInstruments
            THEN RemoveMissingLoop(W, Tail(refs), newIds,
                                   Append(partsToRemove, p.id))
            ELSE RemoveMissingLoop(
                     doRemoveInstruments(W, instrumentsToRemove,
                                         PartRef(W.sc, W.ex, cur, p.id)),
                     Tail(refs), newIds, partsToRemove)

removeMissingInstruments(W, newIds) ==
    RemoveMissingLoop(W, partListRefs(W.sc, W.ex, cur), newIds, <<>>)

\* No instrument counted as existing.
NoInstrumentsIds(W) == <<>>

\* The primary instruments alone counted as existing.
PrimaryInstrumentsIds(W) ==
    LET ps == partListOf(W.sc, W.ex, cur)
    IN [i \in 1..Len(ps) |-> mainInstrumentId(ps[i])]

allInstrumentsIds(W) ==
    LET ps == partListOf(W.sc, W.ex, cur)
    IN FlattenSeq([i \in 1..Len(ps) |-> Values(ps[i].instr)])

lastStaffIndex(parts) ==
    IF StaffCount(parts) > 0 THEN StaffCount(parts) - 1 ELSE 0

\* Score::insertPart(part, idx): before the first part that starts at a
\* staff index >= idx, at the end when there is none.
insertPartPos(parts, idx) ==
    LET ok == {i \in DOMAIN parts : StaffCount(SubSeq(parts, 1, i - 1)) >= idx}
    IN IF ok = {} THEN Len(parts) ELSE Min(ok) - 1

RECURSIVE FreshStaves(_, _)
FreshStaves(used, n) ==
    IF n = 0 THEN <<>>
    ELSE LET id == FreshId(used) IN <<id>> \o FreshStaves(used \cup {id}, n - 1)

\* The body of the loop of setInstruments for one instrument that exists
\* nowhere: a new part with the instrument, inserted, then its staves.
NewPart(W, id) ==
    [id |-> FreshId(W.pids),
     instr |-> SetInstrument(<<>>, InitialTick, id),
     staves |-> FreshStaves(W.sids, NStaves(id)),
     name |-> <<TrackName(id)>>,
     show |-> TRUE,
     crs |-> IF W.ms THEN {0} ELSE {},
     sharpFlat |-> "default",
     transpose |-> 0]

RECURSIVE CreateLoop(_, _, _)
CreateLoop(W, ids, existed) ==
    IF ids = <<>> THEN W
    ELSE IF existed # <<>> /\ Head(ids) \in Range(existed)
         THEN CreateLoop(W, Tail(ids), existed)
    ELSE LET parts == W.sc[cur]
             pos == insertPartPos(parts, lastStaffIndex(parts))
             part == NewPart(W, Head(ids))
         IN CreateLoop([W EXCEPT !.sc[cur] = InsertAt(parts, pos, part),
                                 !.pids = @ \cup {part.id},
                                 !.sids = @ \cup Range(part.staves)],
                       Tail(ids), existed)

\* Score::insertMeasure on a score without measures: every staff gets a rest
\* at tick 0.
EnsureMeasure(W) ==
    IF W.ms THEN W
    ELSE LET parts == W.sc[cur]
             Rest(p) == [p EXCEPT !.crs = IF p.staves = <<>> THEN {} ELSE {0}]
         IN [W EXCEPT !.ms = TRUE,
                      !.sc[cur] = [i \in 1..Len(parts) |-> Rest(parts[i])]]

\* NotationParts::doMovePart: the part leaves the list and is inserted
\* before or after the destination; its staves are cloned in place.
doMovePart(W, sourcePartId, destinationPartId, mode) ==
    LET parts == W.sc[cur]
    IN IF ~InScore(parts, sourcePartId) \/ ~InScore(parts, destinationPartId)
       THEN W
       ELSE LET part == parts[IndexOfPart(parts, sourcePartId)]
                rest == RemoveAt(parts, IndexOfPart(parts, sourcePartId))
                toPartIndex == IF InScore(rest, destinationPartId)
                               THEN IndexOfPart(rest, destinationPartId) - 1
                               ELSE -1
                newPartIndex == IF mode = "Before" THEN toPartIndex
                                ELSE toPartIndex + 1
            IN [W EXCEPT !.sc[cur] = InsertAt(rest, newPartIndex, part)]

\* The loops of sortParts from the 0-based index i on.
RECURSIVE SortLoop(_, _, _)
SortLoop(W, ids, i) ==
    LET parts == W.sc[cur] IN
    IF i >= Len(ids) THEN W
    ELSE IF i >= Len(parts) THEN [W EXCEPT !.ok = FALSE]
    ELSE IF mainInstrumentId(parts[i + 1]) = ids[i + 1] THEN SortLoop(W, ids, i + 1)
    ELSE LET found == {j \in (i + 1)..Len(parts) :
                          mainInstrumentId(parts[j]) = ids[i + 1]}
         IN IF found = {} THEN SortLoop(W, ids, i + 1)
            ELSE SortLoop(doMovePart(W, parts[Min(found)].id, parts[i + 1].id,
                                     "Before"),
                          ids, i + 1)

\* NotationParts::sortParts; asserts tells whether Q_ASSERT is compiled in.
sortParts(W, ids, asserts) ==
    IF asserts /\ Len(W.sc[cur]) # Len(ids) THEN [W EXCEPT !.ok = FALSE]
    ELSE SortLoop(W, ids, 0)

\* Every excerpt kept.
removeNoExcerpts(W) == W

removeEmptyExcerpts(W) ==
    LET Keep(e) == StaffCount(W.sc[e]) # 0
    IN [W EXCEPT !.ex = SelectSeq(@, Keep)]

\* ------------------------------------------------- staves and selection
\* The staves of the parts of one score, as ids.
StaffIdsOf(parts) == UNION {Range(parts[i].staves) : i \in DOMAIN parts}

\* A staff as Staff's constructor leaves it: shown, with visible lines, of
\* the standard type and with every voice visible.
DefaultStaff ==
    [visible |-> TRUE, invisible |-> FALSE, cutaway |-> FALSE, small |-> FALSE,
     type |-> "standard", voices |-> Voices]

\* The settings of the staves the score has: those of a staff that is gone
\* go with it, a new staff has the settings of a new Staff.
StaffSettings(st, parts) ==
    [s \in StaffIdsOf(parts) |-> IF s \in DOMAIN st THEN st[s] ELSE DefaultStaff]

NoSelection == [part |-> NoPart, tick |-> 0]

\* Score::getSelectedChordRest after the edit: a chord or rest that went
\* with its part is selected no more.
SelectionIn(sel, parts) ==
    IF sel.part # NoPart /\ InScore(parts, sel.part)
          /\ sel.tick \in parts[IndexOfPart(parts, sel.part)].crs
    THEN sel ELSE NoSelection

\* ------------------------------------------------- notification registry
\* The function f with the value v at the key k it had not.
WithKey(f, k, v) == [x \in (DOMAIN f) \cup {k} |-> IF x = k THEN v ELSE f[x]]

\* The number the next new channel gets: the channels made so far.
NextChannel(W) == Cardinality(DOMAIN W.pn) + Cardinality(DOMAIN W.sn)

\* partNotifier making a new channel at every request.
partNotifierAnew(W, partId) ==
    [W EXCEPT !.pn = WithKey(@, partId, NextChannel(W))]

\* NotationParts::partNotifier: the channel of the part's instrument list,
\* made at the first request for the part id.
partNotifier(W, partId) ==
    IF partId \in DOMAIN W.pn THEN W
    ELSE [W EXCEPT !.pn = WithKey(@, partId, NextChannel(W))]

\* NotationParts::instrumentNotifier: the channel of the staff list of the
\* instrument of the part, made at the first request for the key.
instrumentNotifier(W, instrumentId, fromPartId) ==
    IF <<fromPartId, instrumentId>> \in DOMAIN W.sn THEN W
    ELSE [W EXCEPT !.sn = WithKey(@, <<fromPartId, instrumentId>>, NextChannel(W))]

\* ------------------------------------------------------------ operations
\* The editor runs until an assertion fails; a behaviour is followed for
\* MaxSteps operations.
Running == ~fault /\ steps < MaxSteps

\* The end of an operation on the score W that issued the events evs: the
\* score is stored; an operation that faulted leaves its session open.
Finish(W, op, evs) ==
    /\ scores' = W.sc
    /\ excerpts' = W.ex
    /\ ics' = W.ic
    /\ measures' = W.ms
    /\ fault' = ~W.ok
    /\ lastOp' = op
    /\ log' = IF W.ok THEN evs ELSE <<Begin>>
    /\ steps' = steps + 1
    /\ staffs' = StaffSettings(W.st, W.sc[cur])
    /\ selection' = SelectionIn(W.sel, W.sc[cur])
    /\ partsNotifiers' = W.pn
    /\ instrumentsNotifiers' = W.sn
    /\ UNCHANGED <<cur, canChangeInstrumentsVisibilityHash>>

\* What lastOp keeps of an operation: its name, the list of ids given (of
\* setInstruments, moveStaves and removeStaves) and, of setInstruments,
\* whether the assertions were compiled in and whether the operation
\* before was the same call.
Op(name, ids, asserts) ==
    [op |-> name, ids |-> ids, asserts |-> asserts,
     again |-> /\ name = "setInstruments"
               /\ lastOp.op = name
               /\ lastOp.ids = ids
               /\ lastOp.asserts = asserts]

setInstrumentsResult(W, ids, asserts) ==
    LET W1 == removeMissingInstruments(W, ids)
        W2 == CreateLoop(W1, ids, allInstrumentsIds(W1))
        W3 == EnsureMeasure(W2)
        W4 == sortParts(W3, ids, asserts)
    IN IF W4.ok THEN removeEmptyExcerpts(W4) ELSE W4

setInstruments(ids, asserts) ==
    /\ Running
    /\ LET W == setInstrumentsResult(World, ids, asserts)
       IN /\ Len(W.sc[cur]) <= MaxParts
          /\ Finish(W, Op("setInstruments", ids, asserts),
                    <<Begin, Commit, PartsListChanged, PartsChanged>>)

NoOp(op) ==
    /\ lastOp' = op
    /\ log' = <<>>
    /\ steps' = steps + 1
    /\ UNCHANGED <<scores, excerpts, cur, ics, measures, fault, staffs, selection, partsNotifiers, instrumentsNotifiers, canChangeInstrumentsVisibilityHash>>

Resolves(W, id) == HasPart(W.sc, W.ex, cur, id)

RefOf(W, id) == PartRef(W.sc, W.ex, cur, id)

\* NotationParts::doSetPartName: the undoable change of the part's name.
doSetPartName(W, r, name) == SetPart(W, r, [PartOf(W.sc, r) EXCEPT !.name = name])

Rename(W, r) == doSetPartName(W, r, formatPartName(PartOf(W.sc, r)))

\* The last tick itself, not the one after it.
LastTickItself(m) == Max({1} \cup DOMAIN m)

\* The tick after the last one of the mapping, as low as that may be.
PreviousMaxPlusOne(m) == Max({InitialTick} \cup DOMAIN m) + 1

\* The tick at which appendDoublingInstrument enters the instrument.
DoublingTick(m) == Max({1} \cup DOMAIN m) + 1

\* The instrument channel of the part not notified.
NotificationsWithoutAdded(instr, destinationPartId) ==
    <<Begin, Commit, PartItemChanged(destinationPartId), PartsChanged>>

\* What appendDoublingInstrument issues: the edit, then the notifications.
appendDoublingNotifications(instr, destinationPartId) ==
    <<Begin, Commit, InstrItemAdded(destinationPartId, instr),
      PartItemChanged(destinationPartId), PartsChanged>>

appendDoublingInstrument(instr, destinationPartId) ==
    /\ Running
    /\ LET op == Op("appendDoublingInstrument", <<>>, FALSE)
       IN IF ~Resolves(World, destinationPartId) THEN NoOp(op)
          ELSE LET r == RefOf(World, destinationPartId)
                   part == PartOf(scores, r)
                   tick == DoublingTick(part.instr)
                   W1 == SetPart(World, r,
                             [part EXCEPT !.instr = SetInstrument(@, tick, instr)])
               IN /\ tick <= MaxTick
                  /\ Finish(partNotifier(Rename(W1, r), destinationPartId), op,
                            appendDoublingNotifications(instr, part.id))

replaceInstrument(instrumentId, fromPartId, newInstrument) ==
    /\ Running
    /\ LET op == Op("replaceInstrument", <<>>, FALSE)
       IN IF ~Resolves(World, fromPartId) THEN NoOp(op)
          ELSE LET r == RefOf(World, fromPartId)
                   part == PartOf(scores, r)
               IN IF ~HasInstrument(part.instr, instrumentId) THEN NoOp(op)
                  ELSE LET tick == InfoTick(part.instr, instrumentId)
                           W1 == SetPart(World, r,
                                   [part EXCEPT !.instr = SetInstrument(@, tick, newInstrument)])
                       IN Finish(partNotifier(Rename(W1, r), part.id), op,
                              <<Begin, Commit,
                                InstrItemReplaced(part.id, instrumentId, newInstrument),
                                PartItemChanged(part.id), PartsChanged>>)

removeInstruments(instrumentIds, fromPartId) ==
    /\ Running
    /\ LET op == Op("removeInstruments", <<>>, FALSE)
       IN IF ~Resolves(World, fromPartId) THEN NoOp(op)
          ELSE LET r == RefOf(World, fromPartId)
                   W1 == doRemoveInstruments(World, instrumentIds, r)
               IN Finish(Rename(W1, r), op,
                         <<Begin, Commit, PartItemChanged(fromPartId), PartsChanged>>)

removeParts(partsIds) ==
    /\ Running
    /\ LET op == Op("removeParts", <<>>, FALSE)
       IN IF partsIds = <<>> THEN NoOp(op)
          ELSE Finish(doRemoveParts(World, partsIds), op,
                      <<Begin, Commit, PartsChanged>>)

RECURSIVE MovePartsLoop(_, _, _, _)
MovePartsLoop(W, ids, destinationPartId, mode) ==
    IF ids = <<>> THEN W
    ELSE MovePartsLoop(doMovePart(W, Head(ids), destinationPartId, mode),
                       Tail(ids), destinationPartId, mode)

moveParts(sourcePartsIds, destinationPartId, mode) ==
    /\ Running
    /\ Finish(MovePartsLoop(World, sourcePartsIds, destinationPartId, mode),
              Op("moveParts", <<>>, FALSE),
              <<Begin, Commit, PartsChanged>>)

\* ------------------------------------------------------- moveInstruments
\* partInstruments.insert(newInstrumentIndex++, ...) for every moved one.
RECURSIVE InsertAll(_, _, _)
InsertAll(list, index, moved) ==
    IF moved = <<>> THEN list
    ELSE InsertAll(InsertAt(list, index, Head(moved)), index + 1, Tail(moved))

\* The loop over the incoming ticks: a tick the list holds already is
\* entered as the list's last element plus one.
RECURSIVE AppendFractions(_, _)
AppendFractions(fractions, incoming) ==
    IF incoming = <<>> THEN fractions
    ELSE IF Head(incoming) \in Range(fractions)
         THEN AppendFractions(Append(fractions, fractions[Len(fractions)] + 1),
                              Tail(incoming))
    ELSE AppendFractions(Append(fractions, Head(incoming)), Tail(incoming))

\* std::sort of a list that may hold a tick twice.
RECURSIVE SortTicks(_)
SortTicks(s) ==
    IF s = <<>> THEN <<>>
    ELSE LET x == Min(Range(s))
             i == Min({j \in DOMAIN s : s[j] = x})
         IN <<x>> \o SortTicks(RemoveAt(s, i))

\* The loop left at the first entry that finds no chord or rest.
RECURSIVE AnchorLoopStopping(_, _, _, _, _, _)
AnchorLoopStopping(W, r, instrs, fractions, known, i) ==
    IF i > Len(fractions) THEN W
    ELSE LET part == PartOf(W.sc, r)
             instrument == instrs[i]
             fraction == fractions[i]
             change == [part |-> part.id, tick |-> fraction, instr |-> instrument]
             ic1 == IF fraction \in known
                    THEN {c \in W.ic : ~(c.part = part.id /\ c.tick = fraction)}
                         \cup {change}
                    ELSE W.ic \cup {change}
             W1 == SetPart([W EXCEPT !.ic = ic1], r,
                       [part EXCEPT !.instr = SetInstrument(@, fraction, instrument)])
         IN IF fraction \notin known /\ ~HasChordRest(part, fraction) THEN W
            ELSE AnchorLoopStopping(W1, r, instrs, fractions, known, i + 1)

\* The loop of doInsertInstruments over the entries 1.. of the merged
\* lists; known is the set of ticks that had an InstrumentChange before.
RECURSIVE AnchorLoop(_, _, _, _, _, _)
AnchorLoop(W, r, instrs, fractions, known, i) ==
    IF i > Len(fractions) THEN W
    ELSE LET part == PartOf(W.sc, r)
             instrument == instrs[i]
             fraction == fractions[i]
             change == [part |-> part.id, tick |-> fraction, instr |-> instrument]
             ic1 == IF fraction \in known
                    THEN {c \in W.ic : ~(c.part = part.id /\ c.tick = fraction)}
                         \cup {change}
                    ELSE IF HasChordRest(part, fraction) THEN W.ic \cup {change}
                    ELSE W.ic
             W1 == SetPart([W EXCEPT !.ic = ic1], r,
                       [part EXCEPT !.instr = SetInstrument(@, fraction, instrument)])
         IN AnchorLoop(W1, r, instrs, fractions, known, i + 1)

\* The index after the destination's, whatever the mode.
IndexAfter(destinationIndex, mode) == destinationIndex + 1

\* The index in the destination's list at which the first moved instrument
\* is inserted.
newInstrumentIndex(destinationIndex, mode) ==
    IF mode = "Before" THEN destinationIndex ELSE destinationIndex + 1

doInsertInstruments(W, moving, destinationPartId, destinationInstrumentId, mode) ==
    IF ~Resolves(W, destinationPartId) THEN W
    ELSE LET r == RefOf(W, destinationPartId)
             destinationPart == PartOf(W.sc, r)
             partInstruments0 == Values(destinationPart.instr)
             hits == {i \in DOMAIN partInstruments0 :
                         partInstruments0[i] = destinationInstrumentId}
             destinationIndex == IF hits = {} THEN 0 ELSE Min(hits) - 1
             partInstruments ==
                 InsertAll(partInstruments0,
                           newInstrumentIndex(destinationIndex, mode),
                           Values(moving))
             partInstrumentsFractions ==
                 SortTicks(AppendFractions(Keys(destinationPart.instr), Keys(moving)))
             W1 == IF Len(partInstrumentsFractions) > 0
                   THEN SetPart(W, r, [destinationPart EXCEPT
                            !.instr = SetInstrument(@, InitialTick, partInstruments[1])])
                   ELSE W
             W2 == AnchorLoop(W1, r, partInstruments, partInstrumentsFractions,
                              instrumentChangeTicks(W.ic, destinationPart.id), 2)
         IN Rename(W2, r)

\* The channels notifyAboutInstrumentsChanged(partId) asks for: the one of
\* instrumentList(partId), when the part resolves, and its own.
InstrumentsChangedChannels(W, id) == partNotifier(W, id)

\* notifyAboutInstrumentsChanged(partId): one event for every instrument.
InstrumentsChanged(W, id) ==
    IF ~Resolves(W, id) THEN <<>>
    ELSE LET vs == Values(PartOf(W.sc, RefOf(W, id)).instr)
         IN [i \in 1..Len(vs) |-> InstrItemChanged(id, vs[i])]

moveInstrumentsResult(W, sourceInstrumentsIds, sourcePartId, destinationPartId, destinationInstrumentId, mode) ==
    LET from == RefOf(W, sourcePartId)
        to == RefOf(W, destinationPartId)
        movingInstruments == FilterInstruments(PartOf(W.sc, from).instr,
                                               sourceInstrumentsIds)
        W1 == doRemoveInstruments(W, sourceInstrumentsIds, from)
        W2 == doInsertInstruments(W1, movingInstruments, destinationPartId,
                                  destinationInstrumentId, mode)
        W3 == Rename(W2, from)
        W4 == IF from # to THEN Rename(W3, to) ELSE W3
        W5 == InstrumentsChangedChannels(W4, sourcePartId)
    IN IF from # to THEN InstrumentsChangedChannels(W5, destinationPartId) ELSE W5

moveInstruments(sourceInstrumentsIds, sourcePartId, destinationPartId, destinationInstrumentId, mode) ==
    /\ Running
    /\ LET op == Op("moveInstruments", <<>>, FALSE)
       IN IF ~Resolves(World, sourcePartId) \/ ~Resolves(World, destinationPartId)
          THEN NoOp(op)
          ELSE LET W == moveInstrumentsResult(World, sourceInstrumentsIds, sourcePartId,
                            destinationPartId, destinationInstrumentId, mode)
                   from == RefOf(World, sourcePartId)
                   to == RefOf(World, destinationPartId)
               IN /\ \A t \in DOMAIN PartOf(W.sc, to).instr : t <= MaxTick
                  /\ Finish(W, op,
                        <<Begin, Commit, PartItemChanged(sourcePartId)>>
                        \o InstrumentsChanged(W, sourcePartId)
                        \o (IF from # to
                            THEN InstrumentsChanged(W, destinationPartId)
                                 \o <<PartItemChanged(destinationPartId)>>
                            ELSE <<>>)
                        \o <<PartsChanged>>)

\* --------------------------------------------------------- setPartVisible
findMasterPartIndex(sc, id) ==
    IF InScore(sc[Master], id) THEN IndexOfPart(sc[Master], id) - 1 ELSE -1

\* The index after the last part of the score, whatever the master score's
\* order.
resolvePartIndexAtEnd(sc, part) == Len(sc[cur])

\* NotationParts::resolvePartIndex: the 0-based index of the first part of
\* the score whose index in the master score is not smaller than the
\* part's own, the size of the score when there is none.
resolvePartIndex(sc, part) ==
    LET scoreParts == sc[cur]
        originPartIndex == findMasterPartIndex(sc, part.id)
        later == {i \in DOMAIN scoreParts :
                     findMasterPartIndex(sc, scoreParts[i].id) >= originPartIndex}
    IN IF later = {} THEN Len(scoreParts) ELSE Min(later) - 1

\* appendPart without the loop over the staves of the part.
appendPartWithoutStaves(W, part) ==
    [W EXCEPT !.sc[cur] = InsertAt(@, resolvePartIndex(W.sc, part),
                                   [part EXCEPT !.staves = <<>>])]

appendPart(W, part) ==
    [W EXCEPT !.sc[cur] = InsertAt(@, resolvePartIndex(W.sc, part), part)]

setPartVisible(partId, visible) ==
    /\ Running
    /\ LET op == Op("setPartVisible", <<>>, FALSE)
       IN IF Resolves(World, partId)
          THEN LET r == RefOf(World, partId)
                   part == PartOf(scores, r)
               IN IF part.show = visible THEN NoOp(op)
                  ELSE Finish(SetPart(World, r, [part EXCEPT !.show = visible]), op,
                              <<Begin, Commit, PartItemChanged(partId), PartsChanged>>)
          ELSE IF ~visible \/ ~HasPart(scores, excerpts, Master, partId) THEN NoOp(op)
          ELSE LET part == PartOf(scores, PartRef(scores, excerpts, Master, partId))
               IN /\ Len(scores[cur]) < MaxParts
                  /\ Finish(appendPart(World, part), op,
                            <<Begin, Commit, PartItemChanged(partId), PartsChanged>>)

\* ------------------------------------------- setters of parts, instruments
PartNames == {<<"a">>, <<"x">>}

SharpFlats == {"default", "sharps"}

Transpositions == {0, 1}

\* An operation that reads what it may not read and ends the program.
Crash(op) ==
    /\ fault' = TRUE
    /\ lastOp' = op
    /\ log' = <<>>
    /\ steps' = steps + 1
    /\ UNCHANGED <<scores, excerpts, cur, ics, measures, staffs, selection, partsNotifiers, instrumentsNotifiers, canChangeInstrumentsVisibilityHash>>

\* setPartName without its partsChanged.
SetPartNameOnQuietly(W, partId, name) ==
    IF ~Resolves(W, partId) \/ PartOf(W.sc, RefOf(W, partId)).name = name
    THEN [w |-> W, evs |-> <<>>]
    ELSE [w |-> doSetPartName(W, RefOf(W, partId), name),
          evs |-> <<Begin, Commit, PartItemChanged(partId)>>]

\* NotationParts::setPartName on the score W: the score after it and the
\* events it issued, none when it returned at once.
SetPartNameOn(W, partId, name) ==
    IF ~Resolves(W, partId) \/ PartOf(W.sc, RefOf(W, partId)).name = name
    THEN [w |-> W, evs |-> <<>>]
    ELSE [w |-> doSetPartName(W, RefOf(W, partId), name),
          evs |-> <<Begin, Commit, PartItemChanged(partId), PartsChanged>>]

setPartName(partId, name) ==
    /\ Running
    /\ LET res == SetPartNameOn(World, partId, name)
       IN Finish(res.w, Op("setPartName", <<>>, FALSE), res.evs)

\* setPartSharpFlat with the part's itemChanged fired twice.
setPartSharpFlatNotifyingTwice(partId, sharpFlat) ==
    /\ Running
    /\ LET op == Op("setPartSharpFlat", <<>>, FALSE)
       IN IF ~Resolves(World, partId) THEN NoOp(op)
          ELSE LET r == RefOf(World, partId)
                   part == PartOf(scores, r)
               IN Finish(SetPart(World, r, [part EXCEPT !.sharpFlat = sharpFlat]), op,
                         <<Begin, Commit, PartItemChanged(partId),
                           PartItemChanged(partId), PartsChanged>>)

setPartSharpFlat(partId, sharpFlat) ==
    /\ Running
    /\ LET op == Op("setPartSharpFlat", <<>>, FALSE)
       IN IF ~Resolves(World, partId) THEN NoOp(op)
          ELSE LET r == RefOf(World, partId)
                   part == PartOf(scores, r)
               IN Finish(SetPart(World, r, [part EXCEPT !.sharpFlat = sharpFlat]), op,
                         <<Begin, Commit, PartItemChanged(partId), PartsChanged>>)

setPartTransposition(partId, transpose) ==
    /\ Running
    /\ LET op == Op("setPartTransposition", <<>>, FALSE)
       IN IF ~Resolves(World, partId) THEN NoOp(op)
          ELSE LET r == RefOf(World, partId)
                   part == PartOf(scores, r)
               IN Finish(SetPart(World, r, [part EXCEPT !.transpose = transpose]), op,
                         <<Begin, Commit, PartItemChanged(partId), PartsChanged>>)

\* The loop of updatePartTitles over the parts of the score, from the
\* i-th on: a setPartName for each of them.
RECURSIVE TitlesLoop(_, _, _)
TitlesLoop(W, i, evs) ==
    IF i > Len(W.sc[cur]) THEN [w |-> W, evs |-> evs]
    ELSE LET part == W.sc[cur][i]
             res == SetPartNameOn(W, part.id, formatPartName(part))
         IN TitlesLoop(res.w, i + 1, evs \o res.evs)

updatePartTitles ==
    /\ Running
    /\ LET res == TitlesLoop(World, 1, <<>>)
       IN Finish(res.w, Op("updatePartTitles", <<>>, FALSE), res.evs)

\* The staves of the score in the order of the parts: Score::staves.
AllStaves(parts) == FlattenSeq([i \in DOMAIN parts |-> parts[i].staves])

\* Score::staffIdx(part) for the part the reference names.
StaffIdxOfPart(W, r) == StaffCount(SubSeq(W.sc[r[1]], 1, r[2] - 1))

\* The identifiers of parts and of instruments are both strings (ID) in
\* the program: any two can be compared, whatever they identify.
SameId(x, y) == ToString(x) = ToString(y)

\* NotationParts::needAssignInstrumentToChord, for whatever identifiers
\* it is given: the part is looked up by the second.
needAssignInstrumentToChord(W, instrumentId, fromPartId) ==
    LET refs == availableParts(W.sc, W.ex, cur)
        found == {j \in DOMAIN refs : SameId(PartOf(W.sc, refs[j]).id, fromPartId)}
    IN IF found = {} THEN FALSE
       ELSE LET part == PartOf(W.sc, refs[Min(found)])
            IN /\ ~SameId(mainInstrumentId(part), instrumentId)
               /\ \A c \in W.ic : c.part = part.id => ~SameId(c.instr, instrumentId)

\* NotationParts::resolveCanChangeInstrumentVisibility(instrumentId,
\* fromPartId).
resolveCanChangeInstrumentVisibility(W, instrumentId, fromPartId) ==
    IF ~needAssignInstrumentToChord(W, instrumentId, fromPartId) THEN TRUE
    ELSE W.sel.part # NoPart /\ SameId(W.sel.part, fromPartId)


\* assignIstrumentToSelectedChord called with an edit session open.
assignIstrumentToSelectedChordInSession(W, instrumentId) ==
    IF W.sel.part = NoPart THEN [w |-> W, evs |-> <<>>]
    ELSE [w |-> W,
          evs |-> <<Begin, Begin, Commit, Commit,
                    InstrItemChanged(W.sel.part, instrumentId), PartsChanged>>]

\* NotationParts::assignIstrumentToSelectedChord: the score after it and
\* the events it issued, none when no chord or rest is selected.
assignIstrumentToSelectedChord(W, instrumentId) ==
    IF W.sel.part = NoPart THEN [w |-> W, evs |-> <<>>]
    ELSE LET i == IndexOfPart(W.sc[cur], W.sel.part)
             part == W.sc[cur][i]
             moved == SetInstrument(RemoveInstrument(part.instr, instrumentId),
                                    W.sel.tick, instrumentId)
             change == [part |-> part.id, tick |-> W.sel.tick, instr |-> instrumentId]
             W1 == [W EXCEPT !.sc[cur][i].instr = moved, !.ic = @ \cup {change}]
         IN [w |-> partNotifier(W1, part.id),
             evs |-> <<Begin, Commit, InstrItemChanged(part.id, instrumentId),
                       PartsChanged>>]

\* doSetStaffVisible for the staves the score has at the indices of the
\* staves of the part.
SetPartStavesVisible(W, r, visible) ==
    LET all == AllStaves(W.sc[cur])
        first == StaffIdxOfPart(W, r)
        hit == {all[g] : g \in ((first + 1)..(first + Len(PartOf(W.sc, r).staves)))
                                \cap DOMAIN all}
    IN [W EXCEPT !.st = [x \in DOMAIN @ |->
                            IF x \in hit THEN [@[x] EXCEPT !.invisible = ~visible]
                            ELSE @[x]]]

setInstrumentVisible(instrumentId, fromPartId, visible) ==
    /\ Running
    /\ LET op == Op("setInstrumentVisible", <<>>, FALSE)
       IN IF ~Resolves(World, fromPartId) THEN NoOp(op)
          ELSE LET r == RefOf(World, fromPartId)
                   part == PartOf(scores, r)
               IN IF part.show = visible \/ ~HasInstrument(part.instr, instrumentId)
                  THEN NoOp(op)
                  ELSE IF needAssignInstrumentToChord(World, instrumentId, fromPartId)
                  THEN LET res == assignIstrumentToSelectedChord(World, instrumentId)
                       IN Finish(res.w, op, res.evs)
                  ELSE Finish(partNotifier(SetPartStavesVisible(World, r, visible),
                                           fromPartId),
                              op,
                              <<Begin, Commit, InstrItemChanged(fromPartId, instrumentId),
                                PartsChanged>>)

\* setInstrumentName and setInstrumentAbbreviature: the names of an
\* instrument are no part of the state, the edit session and the
\* notifications are.
SetInstrumentText(op, instrumentId, fromPartId) ==
    IF ~Resolves(World, fromPartId) THEN NoOp(op)
    ELSE LET part == PartOf(scores, RefOf(World, fromPartId))
         IN IF ~HasInstrument(part.instr, instrumentId) THEN NoOp(op)
            ELSE Finish(partNotifier(World, part.id), op,
                        <<Begin, Commit, InstrItemChanged(part.id, instrumentId),
                          PartsChanged>>)

setInstrumentName(instrumentId, fromPartId) ==
    /\ Running
    /\ SetInstrumentText(Op("setInstrumentName", <<>>, FALSE), instrumentId, fromPartId)

setInstrumentAbbreviature(instrumentId, fromPartId) ==
    /\ Running
    /\ SetInstrumentText(Op("setInstrumentAbbreviature", <<>>, FALSE), instrumentId, fromPartId)

\* ---------------------------------------------------------------- staves
\* The lists of ids that name no staff twice.
DistinctSeqs(S, n) == {q \in SeqsUpTo(S, n) : \A i, j \in DOMAIN q : i # j => q[i] # q[j]}

\* NotationParts::staff(id): Score::staff(id) of the current score.
StaffResolves(W, staffId) == staffId \in StaffIdsOf(W.sc[cur])

\* Staff::part of the staff with the id, as an index in the current score.
StaffPartIndex(W, staffId) ==
    Min({i \in DOMAIN W.sc[cur] : staffId \in Range(W.sc[cur][i].staves)})

\* The 0-based index of the staff in the staves of its part: Staff::idx
\* less Score::staffIdx of the part.
LocalStaffIndex(staves, staffId) == Min({i \in DOMAIN staves : staves[i] = staffId}) - 1

\* The staves up to the first id that names none.
RECURSIVE ResolvedStavesUpToMiss(_, _)
ResolvedStavesUpToMiss(W, stavesIds) ==
    IF stavesIds = <<>> \/ ~StaffResolves(W, Head(stavesIds)) THEN <<>>
    ELSE <<Head(stavesIds)>> \o ResolvedStavesUpToMiss(W, Tail(stavesIds))

\* NotationParts::staves(ids): the staves that resolve, in the order given.
ResolvedStaves(W, stavesIds) ==
    LET Known(id) == StaffResolves(W, id) IN SelectSeq(stavesIds, Known)

\* A part that lost its last staff has no chord, rest or element left.
WithoutContent(W) ==
    LET parts == W.sc[cur]
        bare == {parts[i].id : i \in {j \in DOMAIN parts : parts[j].staves = <<>>}}
        Strip(p) == IF p.staves = <<>> THEN [p EXCEPT !.crs = {}] ELSE p
    IN [W EXCEPT !.sc[cur] = [i \in DOMAIN parts |-> Strip(parts[i])],
                 !.ic = {c \in @ : c.part \notin bare}]

\* The clones inserted, the staves themselves not removed.
doMoveStavesKeepingAll(W, staves, destinationStaffIndex, destinationPart) ==
    [W EXCEPT !.sc[cur][destinationPart].staves =
                  InsertAll(@, destinationStaffIndex, staves)]

\* NotationParts::doMoveStaves with a destination part: a clone of every
\* staff, with its id, settings and content, is inserted in the part from
\* the index on, then the staves themselves are removed.
doMoveStaves(W, staves, destinationStaffIndex, destinationPart) ==
    LET parts == W.sc[cur]
        Tag(list, moved) == [i \in DOMAIN list |-> [id |-> list[i], moved |-> moved]]
        Stays(x) == x.moved \/ x.id \notin Range(staves)
        Ids(list) == [i \in DOMAIN list |-> list[i].id]
        Left(list) == Ids(SelectSeq(list, Stays))
        content == UNION {parts[StaffPartIndex(W, staves[i])].crs : i \in DOMAIN staves}
        Moved(i) ==
            IF i = destinationPart
            THEN [parts[i] EXCEPT
                     !.staves = Left(InsertAll(Tag(@, FALSE), destinationStaffIndex,
                                               Tag(staves, TRUE))),
                     !.crs = @ \cup content]
            ELSE [parts[i] EXCEPT !.staves = Left(Tag(@, FALSE))]
    IN WithoutContent([W EXCEPT !.sc[cur] = [i \in DOMAIN parts |-> Moved(i)]])

moveStaves(sourceStavesIds, destinationStaffId, mode) ==
    /\ Running
    /\ LET op == Op("moveStaves", sourceStavesIds, FALSE)
       IN IF sourceStavesIds = <<>> \/ ~StaffResolves(World, destinationStaffId)
          THEN NoOp(op)
          ELSE LET staves == ResolvedStaves(World, sourceStavesIds)
                   destinationPart == StaffPartIndex(World, destinationStaffId)
                   local == LocalStaffIndex(scores[cur][destinationPart].staves,
                                            destinationStaffId)
                   destinationStaffIndex == IF mode = "Before" THEN local ELSE local + 1
               IN Finish(doMoveStaves(World, staves, destinationStaffIndex,
                                      destinationPart),
                         op, <<Begin, Commit, PartsChanged>>)

\* Score::cmdRemoveStaff for every staff that resolves.
RemoveStaves(W, staves) ==
    LET parts == W.sc[cur]
        Stays(id) == id \notin Range(staves)
        Less(p) == [p EXCEPT !.staves = SelectSeq(@, Stays)]
    IN WithoutContent([W EXCEPT !.sc[cur] = [i \in DOMAIN parts |-> Less(parts[i])]])

removeStaves(stavesIds) ==
    /\ Running
    /\ LET op == Op("removeStaves", stavesIds, FALSE)
       IN IF stavesIds = <<>> THEN NoOp(op)
          ELSE Finish(RemoveStaves(World, ResolvedStaves(World, stavesIds)), op,
                      <<Begin, Commit, PartsChanged>>)

\* ------------------------------------------------------ staff settings
\* StaffType::preset knows these types; it has none for any other.
StaffTypes == {"standard", "tab"}

StaffTypeArgs == StaffTypes \cup {"none"}

\* What setStaffConfig is given, as far as the settings kept here go.
StaffConfigs == [visible : BOOLEAN, visibleLines : BOOLEAN]

\* Staff::show: the part is shown and the staff is visible.
StaffShow(W, staffId) ==
    W.sc[cur][StaffPartIndex(W, staffId)].show /\ W.st[staffId].visible

\* NotationParts::notifyAboutStaffChanged: the score with the channel it
\* asked for and the event, none when the staff does not resolve.
notifyAboutStaffChanged(W, staffId) ==
    IF ~StaffResolves(W, staffId) THEN [w |-> W, evs |-> <<>>]
    ELSE LET part == W.sc[cur][StaffPartIndex(W, staffId)]
             instr == mainInstrumentId(part)
         IN [w |-> instrumentNotifier(W, instr, part.id),
             evs |-> <<StaffItemChanged(part.id, instr, staffId)>>]

\* The staff's notification issued inside the edit session.
StaffEditedNotifyingFirst(W, op, staffId) ==
    LET res == notifyAboutStaffChanged(W, staffId)
    IN Finish(res.w, op, <<Begin>> \o res.evs \o <<Commit, PartsChanged>>)

\* The end of a staff setter: commit, notifyAboutStaffChanged, partsChanged.
StaffEdited(W, op, staffId) ==
    LET res == notifyAboutStaffChanged(W, staffId)
    IN Finish(res.w, op, <<Begin, Commit>> \o res.evs \o <<PartsChanged>>)

setStaffVisible(staffId, visible) ==
    /\ Running
    /\ LET op == Op("setStaffVisible", <<>>, FALSE)
       IN IF ~StaffResolves(World, staffId) THEN NoOp(op)
          ELSE IF StaffShow(World, staffId) = visible THEN NoOp(op)
          ELSE StaffEdited([World EXCEPT !.st[staffId].invisible = ~visible], op, staffId)

setStaffType(staffId, type) ==
    /\ Running
    /\ LET op == Op("setStaffType", <<>>, FALSE)
       IN IF ~StaffResolves(World, staffId) \/ type \notin StaffTypes THEN NoOp(op)
          ELSE StaffEdited([World EXCEPT !.st[staffId].type = type], op, staffId)

setCutawayEnabled(staffId, enabled) ==
    /\ Running
    /\ LET op == Op("setCutawayEnabled", <<>>, FALSE)
       IN IF ~StaffResolves(World, staffId) THEN NoOp(op)
          ELSE StaffEdited([World EXCEPT !.st[staffId].cutaway = enabled], op, staffId)

\* setSmallStaff reads the staff type of the staff before it looks whether
\* the staff is there: with no staff the read is of a null pointer, and
\* the program ends (crashes) or goes on to the check and returns.
setSmallStaff(staffId, smallStaff, crashes) ==
    /\ Running
    /\ LET op == Op("setSmallStaff", <<>>, FALSE)
       IN IF ~StaffResolves(World, staffId)
          THEN IF crashes THEN Crash(op) ELSE NoOp(op)
          ELSE StaffEdited([World EXCEPT !.st[staffId].small = smallStaff], op, staffId)

setStaffConfig(staffId, config) ==
    /\ Running
    /\ LET op == Op("setStaffConfig", <<>>, FALSE)
       IN IF ~StaffResolves(World, staffId) THEN NoOp(op)
          ELSE StaffEdited([World EXCEPT !.st[staffId].visible = config.visible,
                                         !.st[staffId].invisible = config.visibleLines],
                           op, staffId)

\* NotationParts::doSetStaffVoiceVisible.
doSetStaffVoiceVisible(W, staffId, voiceIndex, visible) ==
    IF (voiceIndex \in W.st[staffId].voices) = visible THEN W
    ELSE [W EXCEPT !.st[staffId].voices =
                       IF visible THEN @ \cup {voiceIndex} ELSE @ \ {voiceIndex}]

setStaffVoiceVisible(staffId, voiceIndex, visible) ==
    /\ Running
    /\ LET op == Op("setStaffVoiceVisible", <<>>, FALSE)
       IN IF ~StaffResolves(World, staffId) THEN NoOp(op)
          ELSE StaffEdited(doSetStaffVoiceVisible(World, staffId, voiceIndex, visible),
                           op, staffId)

\* NotationParts::voiceVisible: some staff of the score shows the voice.
voiceVisible(W, voiceIndex) ==
    \E x \in StaffIdsOf(W.sc[cur]) : voiceIndex \in W.st[x].voices

RECURSIVE VoiceLoop(_, _, _, _)
VoiceLoop(W, staves, voiceIndex, visible) ==
    IF staves = <<>> THEN W
    ELSE VoiceLoop(doSetStaffVoiceVisible(W, Head(staves), voiceIndex, visible),
                   Tail(staves), voiceIndex, visible)

setVoiceVisible(voiceIndex, visible) ==
    /\ Running
    /\ LET op == Op("setVoiceVisible", <<>>, FALSE)
       IN IF voiceVisible(World, voiceIndex) = visible THEN NoOp(op)
          ELSE Finish(VoiceLoop(World, AllStaves(scores[cur]), voiceIndex, visible), op,
                      <<Begin, Commit, PartsChanged>>)

\* A new staff of the part the reference names, after its last staff, with
\* the settings given.
AppendedStaff(W, r, settings) ==
    LET id == FreshId(W.sids)
        part == PartOf(W.sc, r)
    IN [SetPart(W, r, [part EXCEPT !.staves = Append(@, id)]) EXCEPT
           !.sids = @ \cup {id},
           !.st = IF r[1] = cur THEN WithKey(@, id, settings) ELSE @]

\* appendStaff clones the first staff of the part; a part without staves
\* has none, and the read of the front of its empty list ends the program
\* or yields a staff of no known settings.
appendStaff(destinationPartId, crashes) ==
    /\ Running
    /\ LET op == Op("appendStaff", <<>>, FALSE)
       IN IF ~Resolves(World, destinationPartId) THEN NoOp(op)
          ELSE LET r == RefOf(World, destinationPartId)
                   part == PartOf(scores, r)
                   instr == mainInstrumentId(part)
               IN IF ~HasInstrument(part.instr, instr) THEN NoOp(op)
                  ELSE IF part.staves = <<>> /\ crashes THEN Crash(op)
                  ELSE LET settings == IF part.staves # <<>> /\ r[1] = cur
                                       THEN staffs[part.staves[1]]
                                       ELSE DefaultStaff
                           W1 == AppendedStaff(World, r, settings)
                           staff == PartOf(W1.sc, r).staves[Len(part.staves) + 1]
                       IN Finish(instrumentNotifier(W1, instr, destinationPartId), op,
                                 <<Begin, Commit,
                                   StaffItemAdded(destinationPartId, instr, staff),
                                   PartsChanged>>)

appendLinkedStaff(originStaffId) ==
    /\ Running
    /\ LET op == Op("appendLinkedStaff", <<>>, FALSE)
       IN IF ~StaffResolves(World, originStaffId) THEN NoOp(op)
          ELSE LET i == StaffPartIndex(World, originStaffId)
                   part == scores[cur][i]
                   instr == mainInstrumentId(part)
                   W1 == AppendedStaff(World, <<cur, i>>, staffs[originStaffId])
                   staff == W1.sc[cur][i].staves[Len(part.staves) + 1]
               IN Finish(instrumentNotifier(W1, instr, part.id), op,
                         <<Begin, Commit, StaffItemAdded(part.id, instr, staff),
                           PartsChanged>>)

\* ------------------------------------------------------------ read views
\* instrumentList(partId) hands out the channel of the part, made now when
\* there was none; for a part that does not resolve it asks for none.
instrumentList(partId) ==
    /\ Running
    /\ LET op == Op("instrumentList", <<>>, FALSE)
       IN IF ~Resolves(World, partId) THEN NoOp(op)
          ELSE Finish(partNotifier(World, partId), op, <<>>)

staffList(partId, instrumentId) ==
    /\ Running
    /\ LET op == Op("staffList", <<>>, FALSE)
       IN IF ~Resolves(World, partId) THEN NoOp(op)
          ELSE Finish(instrumentNotifier(World, instrumentId, partId), op, <<>>)

\* -------------------------------------- canChangeInstrumentVisibility
\* What canChangeInstrumentVisibility returns and what the channel of a
\* key is sent.
CanChangeValue(id, instr, val) ==
    [ev |-> "canChange.val", part |-> id, instr |-> instr, val |-> val]

CanChangeSent(id, instr, val) ==
    [ev |-> "canChange.send", part |-> id, instr |-> instr, val |-> val]

\* NotationParts::canChangeInstrumentVisibility: the value kept for the
\* key, computed at the first request for it; resolve... is called with
\* the part id first and the instrument id second.
canChangeInstrumentVisibility(instrumentId, fromPartId) ==
    /\ Running
    /\ LET key == <<fromPartId, instrumentId>>
           hash == IF key \in DOMAIN canChangeInstrumentsVisibilityHash
                   THEN canChangeInstrumentsVisibilityHash
                   ELSE WithKey(canChangeInstrumentsVisibilityHash, key,
                                resolveCanChangeInstrumentVisibility(World, fromPartId,
                                                                     instrumentId))
       IN /\ canChangeInstrumentsVisibilityHash' = hash
          /\ log' = <<CanChangeValue(fromPartId, instrumentId, hash[key])>>
    /\ lastOp' = Op("canChangeInstrumentVisibility", <<>>, FALSE)
    /\ steps' = steps + 1
    /\ UNCHANGED <<scores, excerpts, cur, ics, measures, fault, staffs, selection, partsNotifiers, instrumentsNotifiers>>

\* NotationParts::updateCanChangeInstrumentsVisibility: a value sent for
\* every key of the hash, in one of the orders QHash::keys may give;
\* resolve... is called with key.partId first and key.instrumentId second.
RECURSIVE updateCanChangeInstrumentsVisibility(_, _)
updateCanChangeInstrumentsVisibility(W, keys) ==
    IF keys = {} THEN <<>>
    ELSE LET key == CHOOSE k \in keys : TRUE
         IN <<CanChangeSent(key[1], key[2],
                            resolveCanChangeInstrumentVisibility(W, key[1], key[2]))>>
            \o updateCanChangeInstrumentsVisibility(W, keys \ {key})

\* The handler of the interaction's selectionChanged, made in the
\* constructor: the chord or rest sel, or none, is selected now.
selectionChanged(sel) ==
    /\ Running
    /\ selection' = sel
    /\ log' = updateCanChangeInstrumentsVisibility([World EXCEPT !.sel = sel],
                   DOMAIN canChangeInstrumentsVisibilityHash)
    /\ lastOp' = Op("selectionChanged", <<>>, FALSE)
    /\ steps' = steps + 1
    /\ UNCHANGED <<scores, excerpts, cur, ics, measures, fault, staffs, partsNotifiers, instrumentsNotifiers, canChangeInstrumentsVisibilityHash>>

\* ------------------------------------------------------- initial states
OtherInstr(id) == IF id = "a" THEN "b" ELSE "a"

\* The mappings a part with the primary instrument id has when the score
\* is opened: the primary alone, or with doubling instruments that
\* appendDoublingInstrument entered (ticks 2 and 3) in an earlier session,
\* the first of them possibly removed again by removeInstruments.
LoadedMappings(id) ==
    LET primary == SetInstrument(<<>>, InitialTick, id)
        q == OtherInstr(id)
    IN {primary,
        SetInstrument(primary, 2, q),
        SetInstrument(SetInstrument(primary, 2, q), 3, q),
        SetInstrument(primary, 3, q)}

LoadedPart(id, m, staves) ==
    [id |-> id, instr |-> m, staves |-> staves,
     name |-> formatPartName([instr |-> m]), show |-> TRUE, crs |-> {0},
     sharpFlat |-> "default", transpose |-> 0]

EmptyScores == [s \in ScoreIds |-> <<>>]

\* A new score without parts, or a saved score with two parts and one
\* excerpt for each of them (the excerpts were made before the doubling
\* instruments), opened on the master score or on the first excerpt.
Init ==
    /\ \/ /\ scores = EmptyScores
          /\ excerpts = <<>>
          /\ cur = Master
          /\ measures = FALSE
       \/ /\ \E m0 \in LoadedMappings("a"), m1 \in LoadedMappings("b") :
                scores = [s \in ScoreIds |->
                    IF s = Master
                    THEN <<LoadedPart(0, m0, <<0>>), LoadedPart(1, m1, <<1, 2>>)>>
                    ELSE IF s = 1
                    THEN <<LoadedPart(0, SetInstrument(<<>>, InitialTick, "a"), <<0>>)>>
                    ELSE <<LoadedPart(1, SetInstrument(<<>>, InitialTick, "b"), <<1, 2>>)>>]
          /\ excerpts = <<1, 2>>
          /\ cur \in {Master, 1}
          /\ measures = TRUE
    /\ ics = {}
    /\ staffs = StaffSettings(<<>>, scores[cur])
    /\ selection = NoSelection
    /\ partsNotifiers = <<>>
    /\ instrumentsNotifiers = <<>>
    /\ canChangeInstrumentsVisibilityHash = <<>>
    /\ log = <<>>
    /\ lastOp = [op |-> "init", ids |-> <<>>, asserts |-> FALSE, again |-> FALSE]
    /\ fault = FALSE
    /\ steps = 0

Next ==
    \/ \E ids \in SeqsUpTo(InstrIds, MaxList), asserts \in BOOLEAN :
           setInstruments(ids, asserts)
    \/ \E instr \in InstrIds, id \in PartIds : appendDoublingInstrument(instr, id)
    \/ \E old \in InstrIds \cup {NoInstr}, new \in InstrIds, id \in PartIds :
           replaceInstrument(old, id, new)
    \/ \E ids \in SeqsUpTo(InstrIds, MaxBatch), id \in PartIds :
           removeInstruments(ids, id)
    \/ \E ids \in SeqsUpTo(PartIds, MaxBatch) : removeParts(ids)
    \/ \E ids \in SeqsUpTo(PartIds, MaxBatch), id \in PartIds, mode \in Modes :
           moveParts(ids, id, mode)
    \/ \E ids \in SeqsUpTo(InstrIds, MaxBatch), from \in PartIds, to \in PartIds,
          instr \in InstrIds, mode \in Modes :
           moveInstruments(ids, from, to, instr, mode)
    \/ \E id \in PartIds, visible \in BOOLEAN : setPartVisible(id, visible)

Spec == Init /\ [][Next]_vars

\* ------------------------------------------------------ the whole editor
\* The chords and rests that can be selected in the current score.
Selectable(sc) ==
    {NoSelection} \cup {[part |-> sc[cur][i].id, tick |-> t] :
                            i \in DOMAIN sc[cur], t \in {0}}

\* The part as saved after a setPartName: its name is not the one that
\* formatPartName gives.
Renamed(part) == [part EXCEPT !.name = <<"x">>]

\* The InstrumentChange elements of a saved score: one for every
\* instrument that was assigned to a chord or rest of its part.
LoadedChanges(parts) ==
    {c \in [part : PartIds, tick : 0..MaxTick, instr : InstrIds] :
        \E i \in DOMAIN parts : /\ parts[i].id = c.part
                                 /\ c.tick \in (DOMAIN parts[i].instr) \cap parts[i].crs
                                 /\ parts[i].instr[c.tick] = c.instr}

\* A new score without parts, or a saved score with two parts, the first
\* with a doubling instrument that appendDoublingInstrument entered, and
\* one excerpt for each part; opened on the master score, with a chord
\* or rest selected or none, the parts renamed or not, or on the first
\* excerpt, whose instrument list a view has asked for or not; or the
\* saved score whose first part has, besides, an instrument that was
\* assigned to its chord, opened with that chord selected; or a saved
\* score with three parts and one excerpt, which holds the second of
\* them, opened on the master score or on the excerpt.
EditorInit ==
    /\ \/ /\ scores = EmptyScores
          /\ excerpts = <<>>
          /\ cur = Master
          /\ measures = FALSE
          /\ selection = NoSelection
       \/ /\ \E renamed \in BOOLEAN :
                scores = [s \in ScoreIds |->
                    LET Saved(part) == IF renamed /\ s = Master THEN Renamed(part) ELSE part
                        p0 == LoadedPart(0, SetInstrument(SetInstrument(<<>>, InitialTick, "a"), 2, "b"), <<0>>)
                        p1 == LoadedPart(1, SetInstrument(<<>>, InitialTick, "b"), <<1, 2>>)
                        e0 == LoadedPart(0, SetInstrument(<<>>, InitialTick, "a"), <<0>>)
                    IN IF s = Master THEN <<Saved(p0), Saved(p1)>>
                       ELSE IF s = 1 THEN <<e0>>
                       ELSE <<p1>>]
          /\ excerpts = <<1, 2>>
          /\ measures = TRUE
          /\ \/ /\ cur = Master
                /\ selection \in Selectable(scores)
                /\ selection = NoSelection \/ scores[Master][1].name # <<"x">>
             \/ /\ cur = 1
                /\ selection = NoSelection
                /\ scores[Master][1].name # <<"x">>
       \/ /\ scores = [s \in ScoreIds |->
                    LET p0 == LoadedPart(0, SetInstrument(SetInstrument(SetInstrument(<<>>, InitialTick, "a"), 0, "a"), 2, "b"), <<0>>)
                        p1 == LoadedPart(1, SetInstrument(<<>>, InitialTick, "b"), <<1, 2>>)
                        e0 == LoadedPart(0, SetInstrument(<<>>, InitialTick, "a"), <<0>>)
                    IN IF s = Master THEN <<p0, p1>>
                       ELSE IF s = 1 THEN <<e0>>
                       ELSE <<p1>>]
          /\ excerpts = <<1, 2>>
          /\ measures = TRUE
          /\ cur = Master
          /\ selection = [part |-> 0, tick |-> 0]
       \/ /\ scores = [s \in ScoreIds |->
                    LET p0 == LoadedPart(0, SetInstrument(<<>>, InitialTick, "a"), <<0>>)
                        p1 == LoadedPart(1, SetInstrument(<<>>, InitialTick, "b"), <<1>>)
                        p2 == LoadedPart(2, SetInstrument(<<>>, InitialTick, "c"), <<2>>)
                    IN IF s = Master THEN <<p0, p1, p2>>
                       ELSE IF s = 1 THEN <<p1>>
                       ELSE <<>>]
          /\ excerpts = <<1>>
          /\ measures = TRUE
          /\ cur \in {Master, 1}
          /\ selection = NoSelection
    /\ ics = LoadedChanges(scores[cur])
    /\ staffs = StaffSettings(<<>>, scores[cur])
    /\ \/ partsNotifiers = <<>>
       \/ /\ cur = 1
          /\ Len(scores[Master]) = 2
          /\ partsNotifiers = WithKey(<<>>, 0, 0)
    /\ instrumentsNotifiers = <<>>
    /\ canChangeInstrumentsVisibilityHash = <<>>
    /\ log = <<>>
    /\ lastOp = [op |-> "init", ids |-> <<>>, asserts |-> FALSE, again |-> FALSE]
    /\ fault = FALSE
    /\ steps = 0

\* Every operation of the editor: those of Next and those on the
\* settings of parts, instruments and staves, and the read views.
EditorNext ==
    \/ Next
    \/ \E ids \in DistinctSeqs(StaffArgs, MaxBatch), to \in StaffArgs, mode \in Modes :
           moveStaves(ids, to, mode)
    \/ \E ids \in DistinctSeqs(StaffArgs, MaxBatch) : removeStaves(ids)
    \/ \E id \in PartIds, name \in PartNames : setPartName(id, name)
    \/ \E id \in PartIds, sharpFlat \in SharpFlats : setPartSharpFlat(id, sharpFlat)
    \/ \E id \in PartIds, transpose \in Transpositions : setPartTransposition(id, transpose)
    \/ updatePartTitles
    \/ \E instr \in InstrIds, id \in PartIds, visible \in BOOLEAN :
           setInstrumentVisible(instr, id, visible)
    \/ \E instr \in InstrIds, id \in PartIds : setInstrumentName(instr, id)
    \/ \E instr \in InstrIds, id \in PartIds : setInstrumentAbbreviature(instr, id)
    \/ \E id \in StaffArgs, visible \in BOOLEAN : setStaffVisible(id, visible)
    \/ \E id \in StaffArgs, type \in StaffTypeArgs : setStaffType(id, type)
    \/ \E id \in StaffArgs, enabled \in BOOLEAN : setCutawayEnabled(id, enabled)
    \/ \E id \in StaffArgs, small \in BOOLEAN, crashes \in BOOLEAN :
           setSmallStaff(id, small, crashes)
    \/ \E id \in StaffArgs, config \in StaffConfigs : setStaffConfig(id, config)
    \/ \E id \in StaffArgs, voice \in Voices, visible \in BOOLEAN :
           setStaffVoiceVisible(id, voice, visible)
    \/ \E voice \in Voices, visible \in BOOLEAN : setVoiceVisible(voice, visible)
    \/ \E id \in PartIds, crashes \in BOOLEAN : appendStaff(id, crashes)
    \/ \E id \in StaffArgs : appendLinkedStaff(id)
    \/ \E id \in PartIds : instrumentList(id)
    \/ \E id \in PartIds, instr \in InstrIds : staffList(id, instr)
    \/ \E instr \in InstrIds, id \in PartIds : canChangeInstrumentVisibility(instr, id)
    \/ \E sel \in Selectable(scores) : selectionChanged(sel)

EditorSpec == EditorInit /\ [][EditorNext]_vars

\* ================================================================ claims
\* The ids of the parts the references name, in their order.
IdsOf(refs) == [i \in DOMAIN refs |-> PartOf(scores, refs[i]).id]

FirstSeen(ids, id) == Min({i \in DOMAIN ids : ids[i] = id})

\* C1: after any sequence of operations partList() holds no two parts with
\* the same id, and its entries are the first-seen ones, in first-seen
\* order, of the current score's parts followed by the parts of each
\* excerpt (the excerpts count only when the current score is the master).
C1_PartListDistinctFirstSeen ==
    LET seen == ScoreRefs(scores, cur)
                \o (IF cur = Master
                    THEN FlattenSeq([e \in 1..Len(excerpts) |->
                                        ScoreRefs(scores, excerpts[e])])
                    ELSE <<>>)
        ids == IdsOf(seen)
        pl == partList
    IN /\ \A i, j \in DOMAIN pl : i # j => pl[i].id # pl[j].id
       /\ {pl[i].id : i \in DOMAIN pl} = Range(ids)
       /\ \A i \in DOMAIN pl : pl[i] = PartOf(scores, seen[FirstSeen(ids, pl[i].id)])
       /\ \A i, j \in DOMAIN pl :
              i < j => FirstSeen(ids, pl[i].id) < FirstSeen(ids, pl[j].id)

\* Parts have been moved on the master score, two parts are listed and a
\* part is reachable through the master score and through an excerpt.
C1_Witness ==
    /\ cur = Master
    /\ lastOp.op = "moveParts"
    /\ Len(partList) = 2
    /\ Len(availableParts(scores, excerpts, cur)) > Len(partList)

\* A step is a setInstruments call that completed.
SetInstrumentsStep == lastOp'.op = "setInstruments" /\ ~fault'

\* C2: setInstruments(L) directly after a setInstruments(L) that completed
\* (in the same build) completes and changes no part, staff, mapping,
\* element or excerpt; it issues no notification for a single part or
\* instrument, only the list-wide ones.
C2_SetInstrumentsIdempotent ==
    [][lastOp'.again
       => /\ ~fault'
          /\ scores' = scores
          /\ excerpts' = excerpts
          /\ ics' = ics
          /\ measures' = measures
          /\ \A i \in DOMAIN log' :
                 log'[i] \in {Begin, Commit, PartsListChanged, PartsChanged}]_vars

\* The second of two setInstruments calls with the same two-element list has
\* completed on a score of two parts.
C2_Witness ==
    /\ lastOp.again
    /\ Len(lastOp.ids) = 2
    /\ ~fault
    /\ Len(scores[cur]) = 2
    /\ log # <<>>

\* C3: after setInstruments(L) has completed, the i-th part of the score has
\* the i-th id of L as its primary instrument, for every i.
C3_OrderMatchesList ==
    (lastOp.op = "setInstruments" /\ ~fault)
    => \A i \in DOMAIN lastOp.ids :
           /\ i <= Len(scores[cur])
           /\ mainInstrumentId(scores[cur][i]) = lastOp.ids[i]

\* The ids of the instruments of the parts that partList() holds in W.
PresentIds(W) ==
    LET ps == partListOf(W.sc, W.ex, cur)
    IN UNION {Range(Values(ps[i].instr)) : i \in DOMAIN ps}

\* C4: a setInstruments(L) that completes removes every listed part none of
\* whose instrument ids is in L (its id is in partList() no more), and
\* leaves a part with some ids in L and some not in place, its mapping
\* without exactly the entries whose ids are not in L.
C4_RemovesMissing ==
    [][SetInstrumentsStep
       => \A i \in DOMAIN partList :
             LET p == partList[i]
                 kept == {k \in DOMAIN p.instr : p.instr[k] \in Range(lastOp'.ids)}
                 after == partListOf(scores', excerpts', cur)
             IN IF kept = {}
                THEN \A j \in DOMAIN after : after[j].id # p.id
                ELSE \E j \in DOMAIN after :
                        /\ after[j].id = p.id
                        /\ after[j].instr = Restrict(p.instr, kept)]_vars

\* The first operation on the opened score was a setInstruments with a
\* one-element list: one of the two parts is gone, and its excerpt with it.
C4_Witness ==
    /\ steps = 1
    /\ lastOp.op = "setInstruments"
    /\ Len(lastOp.ids) = 1
    /\ ~fault
    /\ cur = Master
    /\ Len(scores[Master]) = 1
    /\ Len(excerpts) = 1

\* The parts of the score sc made by the step: their ids were not in use.
NewParts(sc) == {p \in Range(sc[cur]) : p.id \notin UsedPartIds(scores)}

Occurrences(ids, id) == Cardinality({i \in DOMAIN ids : ids[i] = id})

\* C5: a setInstruments(L) that completes makes, for every id of L that no
\* part holds after the removals, one new part for each time L names it,
\* with the id as its only instrument, at the initial tick, and with the
\* staves of the instrument; it makes no part for an id some part holds,
\* as its primary or as a doubling instrument.
C5_CreatesAbsentOnly ==
    [][SetInstrumentsStep
       => LET ids == lastOp'.ids
              present == PresentIds(removeMissingInstruments(World, ids))
              made == NewParts(scores')
          IN /\ \A p \in made :
                    /\ DOMAIN p.instr = {InitialTick}
                    /\ p.instr[InitialTick] \in Range(ids) \ present
                    /\ Len(p.staves) = NStaves(p.instr[InitialTick])
             /\ \A id \in InstrIds :
                    Cardinality({p \in made : p.instr[InitialTick] = id})
                    = IF id \in Range(ids) \ present
                      THEN Occurrences(ids, id) ELSE 0]_vars

\* setInstruments(<<"a", "b">>) was the first operation and has made the
\* two parts of a score that had none.
C5_Witness ==
    /\ steps = 1
    /\ lastOp.op = "setInstruments"
    /\ lastOp.ids = <<"a", "b">>
    /\ ~fault
    /\ excerpts = <<>>
    /\ Len(scores[cur]) = 2
    /\ \A i \in 1..2 : scores[cur][i].instr = SetInstrument(<<>>, InitialTick, lastOp.ids[i])

\* The mapping of the part that the id resolves to, before and after a step.
MappingOf(id) == PartOf(scores, RefOf(World, id)).instr

MappingAfter(id) == PartOf(scores', RefOf(World, id)).instr

\* A step is an appendDoublingInstrument on a part that exists.
AppendStep == lastOp'.op = "appendDoublingInstrument" /\ log' # <<>>

\* C6: appendDoublingInstrument on an existing part adds exactly one entry
\* to the part's mapping, at a tick above every tick the mapping had, and
\* leaves every entry the mapping had as it was.
C6_AppendsAboveAll ==
    [][AppendStep
       => \A instr \in InstrIds, id \in PartIds :
             (Resolves(World, id) /\ appendDoublingInstrument(instr, id))
             => LET m == MappingOf(id)
                    n == MappingAfter(id)
                    added == (DOMAIN n) \ (DOMAIN m)
                IN /\ Cardinality(added) = 1
                   /\ DOMAIN m \subseteq DOMAIN n
                   /\ \A k \in DOMAIN m : n[k] = m[k]
                   /\ \A t \in added : n[t] = instr /\ \A k \in DOMAIN m : t > k]_vars

\* A part that held three instruments has been given a fourth.
C6_Witness ==
    /\ lastOp.op = "appendDoublingInstrument"
    /\ \E i \in DOMAIN scores[cur] :
          /\ DOMAIN scores[cur][i].instr = {InitialTick, 2, 3, 4}
          /\ InstrItemAdded(scores[cur][i].id, scores[cur][i].instr[4]) \in Range(log)

ItemLevel(e) == e.ev \notin {"begin", "commit", "partsChanged", "parts.changed"}

Count(evs, e) == Cardinality({i \in DOMAIN evs : evs[i] = e})

CommitIndex(evs) == Min({i \in DOMAIN evs : evs[i] = Commit})

\* C8: an appendDoublingInstrument(instrument, P) on an existing part issues
\* one item-changed notification for P on the parts channel and one
\* item-added notification with the instrument on P's instrument channel,
\* both after the commit, and no other notification for an item.
C8_AppendNotifications ==
    [][AppendStep
       => \A instr \in InstrIds, id \in PartIds :
             (Resolves(World, id) /\ appendDoublingInstrument(instr, id))
             => /\ Count(log', Commit) = 1
                /\ Count(log', PartItemChanged(id)) = 1
                /\ Count(log', InstrItemAdded(id, instr)) = 1
                /\ \A i \in DOMAIN log' :
                      ItemLevel(log'[i])
                      => /\ log'[i] \in {PartItemChanged(id), InstrItemAdded(id, instr)}
                         /\ i > CommitIndex(log')]_vars

\* appendDoublingInstrument has notified of the instrument "b" on part 1.
C8_Witness ==
    /\ lastOp.op = "appendDoublingInstrument"
    /\ InstrItemAdded(1, "b") \in Range(log)
    /\ PartItemChanged(1) \in Range(log)

\* A step is a moveInstruments between parts that exist.
MoveStep == lastOp'.op = "moveInstruments" /\ log' # <<>>

\* The moves of instruments between two different parts.
MoveBetween(ids, from, to, instr, mode) ==
    /\ Resolves(World, from)
    /\ Resolves(World, to)
    /\ RefOf(World, from) # RefOf(World, to)
    /\ moveInstruments(ids, from, to, instr, mode)

Batches == SeqsUpTo(InstrIds, MaxBatch) \ {<<>>}

\* C9: after moveInstruments of the named instruments between two different
\* parts the destination's mapping has as many entries as it had plus the
\* number of the moved ones: an incoming entry whose tick is taken goes to
\* a free tick and replaces nothing.
C9_MoveReplacesNothing ==
    [][MoveStep
       => \A from \in PartIds, to \in PartIds :
             (from # to /\ log'[3] = PartItemChanged(from)
                  /\ log'[Len(log') - 1] = PartItemChanged(to))
             => \A ids \in Batches, instr \in InstrIds, mode \in Modes :
                   MoveBetween(ids, from, to, instr, mode)
                   => Cardinality(DOMAIN MappingAfter(to))
                      = Cardinality(DOMAIN MappingOf(to))
                        + Cardinality(DOMAIN FilterInstruments(MappingOf(from), ids))]_vars

RECURSIVE IsSubSeq(_, _)
IsSubSeq(s, t) ==
    IF s = <<>> THEN TRUE
    ELSE IF t = <<>> THEN FALSE
    ELSE IF Head(s) = Head(t) THEN IsSubSeq(Tail(s), Tail(t))
    ELSE IsSubSeq(s, Tail(t))

\* C10: moveInstruments of the one instrument X of part A before the
\* instrument Y of another part B: in B's instruments in the order of
\* their ticks X is afterwards directly before Y, and the instruments B
\* had are there in the order they had; when B has an instrument at the
\* initial tick, B's instruments are exactly the ones it had with X
\* directly before the first Y.
C10_MovedBeforeDestination ==
    [][MoveStep
       => \A from \in PartIds, to \in PartIds :
             (from # to /\ log'[3] = PartItemChanged(from)
                  /\ log'[Len(log') - 1] = PartItemChanged(to))
             => \A X \in InstrIds, Y \in InstrIds :
                   (MoveBetween(<<X>>, from, to, Y, "Before")
                       /\ Cardinality(DOMAIN FilterInstruments(MappingOf(from), <<X>>)) = 1
                       /\ HasInstrument(MappingOf(to), Y))
                   => LET before == Values(MappingOf(to))
                          after == Values(MappingAfter(to))
                          at == Min({i \in DOMAIN before : before[i] = Y})
                      IN /\ \E i \in 1..(Len(after) - 1) :
                                after[i] = X /\ after[i + 1] = Y
                         /\ IsSubSeq(before, after)
                         /\ InitialTick \in DOMAIN MappingOf(to)
                            => after = SubSeq(before, 1, at - 1) \o <<X>>
                                       \o SubSeq(before, at, Len(before))]_vars

\* The first operation has moved the only instrument "a" of part 0 before
\* the "b" of part 1, which held "b" and a later "a".
C10_Witness ==
    /\ steps = 1
    /\ lastOp.op = "moveInstruments"
    /\ cur = Master
    /\ Len(scores[Master]) = 2
    /\ DOMAIN scores[Master][1].instr = {}
    /\ Values(scores[Master][2].instr) = <<"a", "b", "a">>
    /\ PartItemChanged(1) \in Range(log)

\* A step is a moveStaves that went as far as its edit session.
MoveStavesStep == lastOp'.op = "moveStaves" /\ log' # <<>>

\* The staves of the i-th part of the current score, before and after.
StavesOf(i) == scores[cur][i].staves

StavesAfter(i) == scores'[cur][i].staves

\* C11: moveStaves of a set S of staves that resolve, all of a part A, to a
\* staff of another part B: afterwards B has |S| staves more, all of S among
\* them, A has |S| staves fewer, none of S among them, and the two parts
\* together have as many staves as before.
C11_MoveStavesPreservesCount ==
    [][MoveStavesStep
       => \A to \in StaffArgs, mode \in Modes :
             LET S == lastOp'.ids
             IN (/\ StaffResolves(World, to)
                 /\ \A i \in DOMAIN S : StaffResolves(World, S[i])
                 /\ \A i \in DOMAIN S :
                        StaffPartIndex(World, S[i]) = StaffPartIndex(World, S[1])
                 /\ StaffPartIndex(World, S[1]) # StaffPartIndex(World, to)
                 /\ moveStaves(S, to, mode))
                => LET A == StaffPartIndex(World, S[1])
                       B == StaffPartIndex(World, to)
                   IN /\ Len(StavesAfter(B)) = Len(StavesOf(B)) + Len(S)
                      /\ Len(StavesAfter(A)) = Len(StavesOf(A)) - Len(S)
                      /\ Range(S) \cap Range(StavesAfter(A)) = {}
                      /\ Range(S) \subseteq Range(StavesAfter(B))
                      /\ Len(StavesAfter(A)) + Len(StavesAfter(B))
                         = Len(StavesOf(A)) + Len(StavesOf(B))]_vars

\* The first operation has moved the two staves of the second part to the
\* staff of the first part, which has three staves now.
C11_Witness ==
    /\ steps = 1
    /\ lastOp.op = "moveStaves"
    /\ Len(lastOp.ids) = 2
    /\ cur = Master
    /\ Len(scores[cur]) = 2
    /\ Len(scores[cur][1].staves) = 3
    /\ scores[cur][2].staves = <<>>
    /\ log = <<Begin, Commit, PartsChanged>>

\* setInstrumentVisible(instr, id, visible) goes to the assignment to the
\* selected chord: the part resolves, its show flag differs, the
\* instrument is in its mapping and needs the assignment.
GoesToAssignment(instr, id, visible) ==
    /\ Resolves(World, id)
    /\ PartOf(scores, RefOf(World, id)).show # visible
    /\ HasInstrument(MappingOf(id), instr)
    /\ needAssignInstrumentToChord(World, instr, id)

\* C12: when setInstrumentVisible goes to the assignment of a doubling
\* instrument of part P to the selected chord and no chord or rest is
\* selected, or the selected one is of a part other than P, no part, no
\* element changes, no edit session is opened and nothing is notified.
C12_AssignFailsSilently ==
    [][lastOp'.op = "setInstrumentVisible"
       => \A instr \in InstrIds, id \in PartIds, visible \in BOOLEAN :
             (/\ GoesToAssignment(instr, id, visible)
              /\ selection.part = NoPart \/ selection.part # id
              /\ setInstrumentVisible(instr, id, visible))
             => /\ scores' = scores
                /\ ics' = ics
                /\ log' = <<>>]_vars

\* A list of part ids, of staff ids, of instrument ids of a part that gives
\* an operation nothing to work on: it is empty or none of its ids resolves.
NoPartOf(ids) == \A i \in DOMAIN ids : ~Resolves(World, ids[i])

NoStaffOf(ids) == \A i \in DOMAIN ids : ~StaffResolves(World, ids[i])

NoInstrumentOf(ids, id) == \A i \in DOMAIN ids : ~HasInstrument(MappingOf(id), ids[i])

\* C13: an operation that hits a precondition miss (the part, staff or
\* instrument named does not resolve, or the list given is empty or names
\* nothing that resolves) opens no edit session and notifies of nothing,
\* partsChanged included: moveParts, removeParts, removeStaves, moveStaves,
\* removeInstruments and the setters of one part or one staff.
C13_MissOpensNoSession ==
    [][/\ lastOp'.op = "moveParts"
          => \A ids \in SeqsUpTo(PartIds, MaxBatch), id \in PartIds, mode \in Modes :
                ((NoPartOf(ids) \/ ~Resolves(World, id)) /\ moveParts(ids, id, mode))
                => log' = <<>>
       /\ lastOp'.op = "removeParts"
          => \A ids \in SeqsUpTo(PartIds, MaxBatch) :
                (NoPartOf(ids) /\ removeParts(ids)) => log' = <<>>
       /\ lastOp'.op = "removeStaves"
          => ((NoStaffOf(lastOp'.ids) /\ removeStaves(lastOp'.ids)) => log' = <<>>)
       /\ lastOp'.op = "moveStaves"
          => \A to \in StaffArgs, mode \in Modes :
                ((NoStaffOf(lastOp'.ids) \/ ~StaffResolves(World, to))
                     /\ moveStaves(lastOp'.ids, to, mode))
                => log' = <<>>
       /\ lastOp'.op = "removeInstruments"
          => \A ids \in SeqsUpTo(InstrIds, MaxBatch), id \in PartIds :
                ((~Resolves(World, id) \/ NoInstrumentOf(ids, id))
                     /\ removeInstruments(ids, id))
                => log' = <<>>
       /\ lastOp'.op = "setPartName"
          => \A id \in PartIds, name \in PartNames :
                (~Resolves(World, id) /\ setPartName(id, name)) => log' = <<>>
       /\ lastOp'.op = "setPartSharpFlat"
          => \A id \in PartIds, sharpFlat \in SharpFlats :
                (~Resolves(World, id) /\ setPartSharpFlat(id, sharpFlat)) => log' = <<>>
       /\ lastOp'.op = "setPartTransposition"
          => \A id \in PartIds, transpose \in Transpositions :
                (~Resolves(World, id) /\ setPartTransposition(id, transpose))
                => log' = <<>>
       /\ lastOp'.op = "setStaffVisible"
          => \A id \in StaffArgs, visible \in BOOLEAN :
                (~StaffResolves(World, id) /\ setStaffVisible(id, visible))
                => log' = <<>>
       /\ lastOp'.op = "setCutawayEnabled"
          => \A id \in StaffArgs, enabled \in BOOLEAN :
                (~StaffResolves(World, id) /\ setCutawayEnabled(id, enabled))
                => log' = <<>>]_vars

\* The events of the edit session, as opposed to the notifications.
SessionEvent(e) == e \in {Begin, Commit}

\* The notifications of a change: of a part, an instrument, a staff or
\* the structure; not the value canChangeInstrumentVisibility gives or
\* sends, which no edit session owns.
ChangeNotification(e) == ~SessionEvent(e) /\ e.ev \notin {"canChange.val", "canChange.send"}

\* The number of the events e among the first n of the log.
CountUpTo(n, e) == Cardinality({i \in 1..n : log[i] = e})

\* The mapping of the part with the id in the current state.
MappingNow(id) == PartOf(scores, PartRef(scores, excerpts, cur, id)).instr

\* One itemChanged for every instrument of the part, in the order of the
\* ticks, an instrument that the part holds twice notified of twice.
ItemChangedForEach(id) ==
    [i \in 1..Len(Values(MappingNow(id))) |-> InstrItemChanged(id, Values(MappingNow(id))[i])]

\* C14: every notification an operation issues comes after the commit of
\* the edit session that made the change (no session is open when it is
\* issued, and one was committed before it); the notifications are
\* delivered one by one in the order of issue, none left out or merged:
\* moveInstruments notifies of the source part, of each of its instruments,
\* of each of the destination's instruments, of the destination part and
\* then of the structure.
C14_NotificationsAfterCommit ==
    /\ \A i \in DOMAIN log :
           ChangeNotification(log[i])
           => /\ CountUpTo(i, Begin) = CountUpTo(i, Commit)
              /\ CountUpTo(i, Commit) >= 1
    /\ \A i \in DOMAIN log :
           log[i] = Commit => i > 1 /\ log[i - 1] = Begin
    /\ (lastOp.op = "moveInstruments" /\ log # <<>>)
       => LET from == log[3].part
              to == log[Len(log) - 1].part
          IN log = <<Begin, Commit, PartItemChanged(from)>>
                   \o ItemChangedForEach(from)
                   \o (IF Len(log) > 4 + Len(ItemChangedForEach(from))
                       THEN ItemChangedForEach(to) \o <<PartItemChanged(to)>>
                       ELSE <<>>)
                   \o <<PartsChanged>>

\* moveInstruments has notified, after the commit, of both parts and twice
\* of an instrument that the destination part holds twice.
C14_Witness ==
    /\ lastOp.op = "moveInstruments"
    /\ Len(log) >= 8
    /\ log[2] = Commit
    /\ \E id \in PartIds, instr \in InstrIds :
           Count(log, InstrItemChanged(id, instr)) = 2

\* The index of the first begin after the i-th event of the log, the
\* length of the log plus one when there is none.
NextBegin(i) ==
    LET later == {j \in DOMAIN log : j > i /\ log[j] = Begin}
    IN IF later = {} THEN Len(log) + 1 ELSE Min(later)

\* C15: every commit in the log of an operation is followed by exactly one
\* partsChanged before the next begin (or the end of the operation), and
\* there are as many partsChanged as commits: none without a commit.
C15_OnePartsChangedPerCommit ==
    /\ \A i \in DOMAIN log :
           log[i] = Commit
           => Cardinality({j \in (i + 1)..(NextBegin(i) - 1) : log[j] = PartsChanged}) = 1
    /\ Count(log, PartsChanged) = Count(log, Commit)

\* updatePartTitles has renamed two parts in two edit sessions, each
\* followed by its partsChanged.
C15_Witness ==
    /\ lastOp.op = "updatePartTitles"
    /\ Count(log, Commit) = 2
    /\ Count(log, PartsChanged) = 2
    /\ log[4] = PartsChanged
    /\ log[5] = Begin

\* C16: every part of the current score holds at least one instrument.
C16_EveryPartHasAnInstrument ==
    \A i \in DOMAIN scores[cur] : DOMAIN scores[cur][i].instr # {}

\* C17: right after appendDoublingInstrument, the entry it added to the
\* part's mapping has exactly one InstrumentChange element of that part
\* at its tick.
C17_AppendedEntryHasInstrumentChange ==
    [][AppendStep
       => LET id == log'[3].part
          IN \A t \in (DOMAIN MappingAfter(id)) \ (DOMAIN MappingOf(id)) :
                Cardinality({c \in ics' : c.part = id /\ c.tick = t}) = 1]_vars

\* The channels the registry holds.
Channels(pn, sn) == {pn[k] : k \in DOMAIN pn} \cup {sn[k] : k \in DOMAIN sn}

\* C18: no step of the editor removes or replaces a channel of the
\* registry: every key keeps the channel it has, whether its part or
\* instrument exists or not, and a key that enters the registry gets a
\* channel that no key has or had.
C18_RegistryKeepsChannels ==
    [][/\ \A k \in DOMAIN partsNotifiers :
             k \in DOMAIN partsNotifiers' /\ partsNotifiers'[k] = partsNotifiers[k]
       /\ \A k \in DOMAIN instrumentsNotifiers :
             k \in DOMAIN instrumentsNotifiers'
             /\ instrumentsNotifiers'[k] = instrumentsNotifiers[k]
       /\ \A k \in (DOMAIN partsNotifiers') \ (DOMAIN partsNotifiers) :
             partsNotifiers'[k] \notin Channels(partsNotifiers, instrumentsNotifiers)
       /\ \A k \in (DOMAIN instrumentsNotifiers') \ (DOMAIN instrumentsNotifiers) :
             instrumentsNotifiers'[k] \notin Channels(partsNotifiers, instrumentsNotifiers)
       /\ Cardinality(Channels(partsNotifiers', instrumentsNotifiers'))
             = Cardinality(DOMAIN partsNotifiers') + Cardinality(DOMAIN instrumentsNotifiers')]_vars

\* The part 0 of the excerpt, whose channel a view had asked for, was
\* removed and then made again by setPartVisible from the master's part
\* (which holds the doubling instrument at tick 2): the key 0 has the
\* channel it had, and a later request made another channel.
C18_Witness ==
    /\ cur = 1
    /\ steps = 2
    /\ lastOp.op = "setPartVisible"
    /\ log # <<>>
    /\ \E i \in DOMAIN scores[cur] :
          /\ scores[cur][i].id = 0
          /\ scores[cur][i].show
          /\ DOMAIN scores[cur][i].instr = {InitialTick, 2}
    /\ 0 \in DOMAIN partsNotifiers
    /\ partsNotifiers[0] = 0

\* A step is a setPartVisible.
SetPartVisibleStep == lastOp'.op = "setPartVisible"

\* The part of the master score with the identifier id.
MasterPart(id) == PartOf(scores, PartRef(scores, excerpts, Master, id))

\* C19: setPartVisible(id, true) for a part that the current score lacks
\* and the master score has puts one part with that identifier into the
\* current score, with the staves of the master's part, identifier by
\* identifier, in one edit session; setPartVisible(id, false) for such a
\* part changes nothing and issues nothing.
C19_SetPartVisibleMaterializes ==
    [][SetPartVisibleStep
       => \A id \in PartIds, visible \in BOOLEAN :
             (/\ ~Resolves(World, id)
              /\ HasPart(scores, excerpts, Master, id)
              /\ setPartVisible(id, visible))
             => IF visible
                THEN /\ Cardinality({i \in DOMAIN scores'[cur] : scores'[cur][i].id = id}) = 1
                     /\ \A i \in DOMAIN scores'[cur] :
                           scores'[cur][i].id = id
                           => scores'[cur][i].staves = MasterPart(id).staves
                     /\ Len(scores'[cur]) = Len(scores[cur]) + 1
                     /\ Count(log', Begin) = 1
                     /\ Count(log', Commit) = 1
                     /\ log'[1] = Begin
                     /\ log'[2] = Commit
                ELSE /\ log' = <<>>
                     /\ UNCHANGED <<scores, excerpts, ics, measures, staffs, selection>>]_vars

\* The excerpt of the first part has been given the second part of the
\* master score, with its two staves.
C19_Witness ==
    /\ cur = 1
    /\ lastOp.op = "setPartVisible"
    /\ log # <<>>
    /\ steps = 1
    /\ \E i \in DOMAIN scores[cur] :
          scores[cur][i].id = 1 /\ scores[cur][i].staves = <<1, 2>>

StaffTargetedOps == {"setStaffVisible", "setStaffType", "setCutawayEnabled", "setSmallStaff", "setStaffConfig", "setStaffVoiceVisible", "appendLinkedStaff"}

\* The operation staffId is the argument of, with any other arguments.
StaffTargeted(staffId) ==
    \/ \E visible \in BOOLEAN : setStaffVisible(staffId, visible)
    \/ \E type \in StaffTypeArgs : setStaffType(staffId, type)
    \/ \E enabled \in BOOLEAN : setCutawayEnabled(staffId, enabled)
    \/ \E small \in BOOLEAN, crashes \in BOOLEAN : setSmallStaff(staffId, small, crashes)
    \/ \E config \in StaffConfigs : setStaffConfig(staffId, config)
    \/ \E voice \in Voices, visible \in BOOLEAN : setStaffVoiceVisible(staffId, voice, visible)
    \/ appendLinkedStaff(staffId)

\* C20: an operation on a staff, called with an identifier that names no
\* staff of the score, returns without a fault, issues nothing and leaves
\* the score, the staff settings and the registry as they were.
C20_UnresolvedStaffReturns ==
    [][lastOp'.op \in StaffTargetedOps
       => \A staffId \in StaffArgs :
             (~StaffResolves(World, staffId) /\ StaffTargeted(staffId))
             => /\ ~fault'
                /\ log' = <<>>
                /\ UNCHANGED <<scores, excerpts, ics, measures, staffs, selection,
                               partsNotifiers, instrumentsNotifiers>>]_vars

\* A step is one of the three setters of a part.
PartSetterStep == lastOp'.op \in {"setPartName", "setPartSharpFlat", "setPartTransposition"}

\* The step has run one edit session, made the part the reference names
\* the part given and left every other part as it was, and has then fired
\* the itemChanged of the part once.
OnePartEdit(id, r, part) ==
    /\ scores' = [scores EXCEPT ![r[1]][r[2]] = part]
    /\ SubSeq(log', 1, 3) = <<Begin, Commit, PartItemChanged(id)>>
    /\ Count(log', Begin) = 1
    /\ Count(log', Commit) = 1
    /\ Count(log', PartItemChanged(id)) = 1
    /\ \A i \in DOMAIN log' : log'[i].ev = "parts.itemChanged" => log'[i].part = id
    /\ UNCHANGED <<excerpts, ics, measures>>

\* C21: setPartName, setPartSharpFlat and setPartTransposition on a part
\* that exists run one edit session that changes that one property of
\* that one part and then fire one itemChanged for the part; setPartName
\* with the name the part has does nothing.
C21_PartSettersAreOneEdit ==
    [][PartSetterStep
       => \A id \in PartIds :
             Resolves(World, id)
             => LET r == RefOf(World, id)
                    part == PartOf(scores, r)
                IN /\ \A name \in PartNames :
                         setPartName(id, name)
                         => IF part.name = name
                            THEN log' = <<>> /\ UNCHANGED <<scores, excerpts, ics, measures>>
                            ELSE OnePartEdit(id, r, [part EXCEPT !.name = name])
                   /\ \A sharpFlat \in SharpFlats :
                         setPartSharpFlat(id, sharpFlat)
                         => OnePartEdit(id, r, [part EXCEPT !.sharpFlat = sharpFlat])
                   /\ \A transpose \in Transpositions :
                         setPartTransposition(id, transpose)
                         => OnePartEdit(id, r, [part EXCEPT !.transpose = transpose])]_vars

\* The second part has been transposed and then been given sharps.
C21_Witness ==
    /\ lastOp.op = "setPartSharpFlat"
    /\ steps = 2
    /\ log = <<Begin, Commit, PartItemChanged(1), PartsChanged>>
    /\ \E i \in DOMAIN scores[cur] :
          /\ scores[cur][i].id = 1
          /\ scores[cur][i].sharpFlat = "sharps"
          /\ scores[cur][i].transpose = 1

\* The edit sessions open after the first n events of the log.
OpenSessions(n) == CountUpTo(n, Begin) - CountUpTo(n, Commit)

\* C22: at no point of an operation is more than one edit session open and
\* none is closed that was not opened, and when the operation has
\* returned none is open.
C22_SessionsBalanced ==
    /\ \A n \in DOMAIN log : OpenSessions(n) \in {0, 1}
    /\ ~fault => OpenSessions(Len(log)) = 0

\* setInstrumentVisible has assigned the doubling instrument to the
\* selected chord in the edit session of assignIstrumentToSelectedChord.
C22_Witness ==
    /\ lastOp.op = "setInstrumentVisible"
    /\ steps = 1
    /\ ics # {}
    /\ Count(log, Begin) = 1
    /\ Count(log, Commit) = 1

\* A step is a removeStaves, moveStaves or removeInstruments that opened
\* its edit session.
BatchStep ==
    /\ lastOp'.op \in {"removeStaves", "moveStaves", "removeInstruments"}
    /\ log' # <<>>

\* The entries of the mapping that hold the instrument.
Holding(m, instr) == {t \in DOMAIN m : m[t] = instr}

\* The staves of the current score that the list names.
Named(ids) == Range(ids) \cap StaffIdsOf(scores[cur])

\* C23: in a batch, an id that does not resolve does not stop the rest.
\* removeStaves removes the staves of its list that exist and no other;
\* moveStaves brings the staves of its list that exist into the part of
\* the destination staff and leaves every other staff in its part;
\* removeInstruments takes from the mapping one entry for each id of its
\* list that the mapping holds and leaves every other entry; each in one
\* edit session.
C23_BatchSkipsUnresolved ==
    [][BatchStep
       => /\ Count(log', Begin) = 1
          /\ Count(log', Commit) = 1
          /\ lastOp'.op = "removeStaves"
             => AllStaves(scores'[cur])
                  = SelectSeq(AllStaves(scores[cur]), LAMBDA x : x \notin Range(lastOp'.ids))
          /\ lastOp'.op = "moveStaves"
             => \A to \in StaffArgs, mode \in Modes :
                   moveStaves(lastOp'.ids, to, mode)
                   => LET d == StaffPartIndex(World, to)
                      IN /\ Named(lastOp'.ids) \subseteq Range(scores'[cur][d].staves)
                         /\ \A i \in DOMAIN scores[cur] :
                               Range(scores[cur][i].staves) \ Named(lastOp'.ids)
                                  \subseteq Range(scores'[cur][i].staves)
                         /\ StaffIdsOf(scores'[cur]) = StaffIdsOf(scores[cur])
          /\ lastOp'.op = "removeInstruments"
             => \A ids \in SeqsUpTo(InstrIds, MaxBatch), id \in PartIds :
                   (Resolves(World, id) /\ removeInstruments(ids, id))
                   => LET m == MappingOf(id)
                          n == MappingAfter(id)
                      IN /\ DOMAIN n \subseteq DOMAIN m
                         /\ \A t \in DOMAIN n : n[t] = m[t]
                         /\ \A instr \in InstrIds :
                               Cardinality(Holding(n, instr))
                                 = Max({0, Cardinality(Holding(m, instr)) - Count(ids, instr)})]_vars

\* removeStaves was given a list with an id that names no staff before
\* the id of the second staff of the second part, and that staff is gone.
C23_Witness ==
    /\ lastOp.op = "removeStaves"
    /\ lastOp.ids = <<3, 2>>
    /\ steps = 1
    /\ log = <<Begin, Commit, PartsChanged>>
    /\ AllStaves(scores[cur]) = <<0, 1>>

\* The InstrumentChange elements of the part at the tick.
ChangesAt(ic, id, t) == {c \in ic : c.part = id /\ c.tick = t}

\* C24: moveInstruments between two parts goes on when the destination
\* part has neither a chord or rest nor an InstrumentChange at the tick of
\* an entry: an entry above the initial tick at such a tick has no
\* InstrumentChange and the edit session is committed; and when the
\* destination had its initial instrument, every tick it had and every
\* tick that left the source is in its mapping and every other entry
\* above the initial tick has one InstrumentChange.
C24_MoveGoesOnWithoutAnchor ==
    [][MoveStep
       => \A from \in PartIds, to \in PartIds :
             (from # to /\ log'[3] = PartItemChanged(from)
                  /\ log'[Len(log') - 1] = PartItemChanged(to))
             => LET m == MappingOf(to)
                    n == MappingAfter(to)
                    left == (DOMAIN MappingOf(from)) \ (DOMAIN MappingAfter(from))
                    part == PartOf(scores, RefOf(World, to))
                    Bare(t) == /\ t \notin instrumentChangeTicks(ics, to)
                               /\ ~HasChordRest(part, t)
                IN /\ log'[1] = Begin
                   /\ log'[2] = Commit
                   /\ \A t \in (DOMAIN n) \ {InitialTick} :
                         Bare(t) => ChangesAt(ics', to, t) = {}
                   /\ InitialTick \in DOMAIN m
                      => /\ (DOMAIN m) \cup left \subseteq DOMAIN n
                         /\ \A t \in (DOMAIN n) \ {InitialTick} :
                               ~Bare(t) => Cardinality(ChangesAt(ics', to, t)) = 1]_vars

\* The second part, which held one instrument, has been given two more
\* at the ticks 2 and 3, where it has no chord or rest: both are in its
\* mapping, it has no InstrumentChange, and the edit was committed.
C24_Witness ==
    /\ lastOp.op = "moveInstruments"
    /\ steps = 2
    /\ log # <<>>
    /\ log[2] = Commit
    /\ \E i \in DOMAIN scores[cur] :
          /\ scores[cur][i].id = 1
          /\ DOMAIN scores[cur][i].instr = {InitialTick, 2, 3}
          /\ scores[cur][i].crs = {0}
    /\ \A c \in ics : c.part # 1

\* A step is a setInstrumentVisible that opened an edit session.
SetInstrumentVisibleStep == lastOp'.op = "setInstrumentVisible" /\ log' # <<>>

\* C25: when setInstrumentVisible assigns the doubling instrument I of the
\* part P to the selected chord, which is in P, P's mapping afterwards
\* holds I at the tick of the chord and not at the tick it had, has as
\* many entries as before, and one InstrumentChange of I at that tick has
\* been added.
C25_AssignMovesEntryToChord ==
    [][SetInstrumentVisibleStep
       => LET I == log'[3].instr
              P == log'[3].part
          IN (/\ selection.part = P
              /\ HasInstrument(MappingOf(P), I)
              /\ needAssignInstrumentToChord(World, I, P))
             => LET m == MappingOf(P)
                    n == MappingAfter(P)
                    t == selection.tick
                IN /\ t \in DOMAIN n
                   /\ n[t] = I
                   /\ InfoTick(m, I) # t => InfoTick(m, I) \notin DOMAIN n
                   /\ Cardinality(DOMAIN n) = Cardinality(DOMAIN m)
                   /\ ics' \ ics = {[part |-> P, tick |-> t, instr |-> I]}]_vars

\* C26: after a step that changed the instrument mapping of a part, the
\* name of the part is the track names of the instruments of its mapping
\* in the order of the ticks, joined by " & ".
C26_NameFollowsMapping ==
    [][log' # <<>>
       => \A s \in ScoreIds :
             \A i \in DOMAIN scores[s], j \in DOMAIN scores'[s] :
                (/\ scores[s][i].id = scores'[s][j].id
                 /\ scores[s][i].instr # scores'[s][j].instr)
                => scores'[s][j].name = formatPartName(scores'[s][j])]_vars

\* C27: after a setInstruments that completed, the excerpts of the master
\* score are those it had whose score still has a staff, in their order:
\* none of them is without staves; and the operation ran one edit session.
C27_NoExcerptWithoutStaves ==
    [][SetInstrumentsStep
       => /\ \A e \in Range(excerpts') : StaffCount(scores'[e]) # 0
          /\ excerpts' = SelectSeq(excerpts, LAMBDA e : StaffCount(scores'[e]) # 0)
          /\ Count(log', Begin) = 1
          /\ Count(log', Commit) = 1]_vars

\* setInstruments has removed the second part, and with it the excerpt
\* that had only that part.
C27_Witness ==
    /\ lastOp.op = "setInstruments"
    /\ ~fault
    /\ steps = 1
    /\ excerpts = <<1>>
    /\ scores[2] = <<>>
    /\ scores[1] # <<>>

\* C28: no setInstruments is stopped in sortParts: when it gets there the
\* score has as many parts as the list has ids, so that neither the
\* assertion fails nor a part is read that is not there.
C28_SortPartsAssertionHolds ==
    lastOp.op = "setInstruments" => ~fault

\* The instrument is one of the part's, not its primary one, and no
\* InstrumentChange of the part has it.
AwaitsAssignment(id, instr) ==
    /\ HasPart(scores, excerpts, cur, id)
    /\ LET part == PartOf(scores, PartRef(scores, excerpts, cur, id))
       IN /\ HasInstrument(part.instr, instr)
          /\ mainInstrumentId(part) # instr
          /\ \A c \in ics : c.part = id => c.instr # instr

\* C29: the value canChangeInstrumentVisibility(instrumentId, partId)
\* returns, and the value sent for the key when the selection changed, is
\* FALSE exactly when the instrument awaits its assignment to a chord and
\* no chord or rest of the part is selected.
C29_CanChangeValue ==
    \A i \in DOMAIN log :
       log[i].ev \in {"canChange.val", "canChange.send"}
       => (log[i].val = ~(/\ AwaitsAssignment(log[i].part, log[i].instr)
                         /\ selection.part # log[i].part))

\* C30: after the score-wide setVoiceVisible(voiceIndex, visible), every
\* staff of every part of the score shows the voice exactly when visible
\* is TRUE, whatever the staves showed before.
C30_VoiceVisibleOnEveryStaff ==
    [][lastOp'.op = "setVoiceVisible"
       => \A voiceIndex \in Voices, visible \in BOOLEAN :
             setVoiceVisible(voiceIndex, visible)
             => \A x \in StaffIdsOf(scores'[cur']) :
                   (voiceIndex \in staffs'[x].voices) = visible]_vars

\* The setters of one staff that C31 names.
StaffSetters == {"setStaffVisible", "setStaffType", "setCutawayEnabled", "setStaffConfig", "setStaffVoiceVisible"}

\* The parts of the current score that hold the staff.
HoldersOf(x) == {i \in DOMAIN scores[cur] : x \in Range(scores[cur][i].staves)}

\* C31: when staffList(P, I) has handed out the staves of the part P with
\* their channel, I being an instrument of P's mapping, and a staff of the
\* list is then changed by setStaffVisible, setStaffType,
\* setCutawayEnabled, setStaffConfig or the setVoiceVisible of one staff,
\* an item-changed event for the staff is issued on that channel.
C31_SnapshotChannelHearsStaffChange ==
    [][(lastOp.op = "staffList" /\ lastOp'.op \in StaffSetters)
       => \A x \in DOMAIN staffs :
             (x \in DOMAIN staffs' /\ staffs'[x] # staffs[x])
             => \A i \in HoldersOf(x), instr \in InstrIds :
                   LET part == scores[cur][i]
                   IN (/\ HasInstrument(part.instr, instr)
                       /\ DOMAIN instrumentsNotifiers = {<<part.id, instr>>})
                      => \E n \in DOMAIN log' :
                            log'[n] = StaffItemChanged(part.id, instr, x)]_vars

\* The ids of the parts of the current score, before and after a step.
PartsOrder == [i \in DOMAIN scores[cur] |-> scores[cur][i].id]

PartsOrderAfter == [i \in DOMAIN scores'[cur'] |-> scores'[cur'][i].id]

Without(order, ids) == SelectSeq(order, LAMBDA x : x \notin Range(ids))

PositionIn(order, id) == Min({i \in DOMAIN order : order[i] = id})

\* C32: moveParts(S, d, mode), S naming parts of the score and d another
\* part of it, puts the parts of S next to d, right before it (Before)
\* or right after it (After), one after the other in the order of S;
\* the other parts keep their order, the score has as many parts as it
\* had, and each moved part has the staves and the mapping it had.
C32_MovedPartsNextToDestination ==
    [][lastOp'.op = "moveParts"
       => \A ids \in DistinctSeqs(Range(PartsOrder), MaxBatch), d \in Range(PartsOrder),
             mode \in Modes :
             (ids # <<>> /\ d \notin Range(ids) /\ moveParts(ids, d, mode))
             => LET k == PositionIn(PartsOrderAfter, d)
                IN /\ Len(PartsOrderAfter) = Len(PartsOrder)
                   /\ Without(PartsOrderAfter, ids) = Without(PartsOrder, ids)
                   /\ mode = "Before" => SubSeq(PartsOrderAfter, k - Len(ids), k - 1) = ids
                   /\ mode = "After" => SubSeq(PartsOrderAfter, k + 1, k + Len(ids)) = ids
                   /\ \A i \in DOMAIN ids :
                         LET was == scores[cur][PositionIn(PartsOrder, ids[i])]
                             is == scores'[cur'][PositionIn(PartsOrderAfter, ids[i])]
                         IN is.instr = was.instr /\ Len(is.staves) = Len(was.staves)]_vars

\* The 0-based indexes that the parts have in the master score.
MasterIndexes(parts) == [i \in DOMAIN parts |-> findMasterPartIndex(scores, parts[i].id)]

\* The parts are parts of the master score, in its order.
InMasterOrder(parts) ==
    /\ \A i \in DOMAIN parts : MasterIndexes(parts)[i] >= 0
    /\ \A i, j \in DOMAIN parts : i < j => MasterIndexes(parts)[i] < MasterIndexes(parts)[j]

\* A step is a setPartVisible that put a part of the master score into the
\* current score.
Materializes == lastOp'.op = "setPartVisible" /\ Len(scores'[cur']) = Len(scores[cur]) + 1

\* C33: when setPartVisible(id, TRUE) puts a part that only the master
\* score has into the current score, whose parts are in the master
\* score's order, the part comes before the first part of the current
\* score whose index in the master score is not smaller than its own, at
\* the end when there is none: the parts of the current score are in the
\* master score's order afterwards, the others where they were.
C33_MaterializedInMasterOrder ==
    [][(Materializes /\ InMasterOrder(scores[cur]))
       => \E k \in DOMAIN scores'[cur'] :
             LET new == scores'[cur'][k]
                 own == findMasterPartIndex(scores, new.id)
                 later == {i \in DOMAIN scores[cur] : MasterIndexes(scores[cur])[i] >= own}
             IN /\ new.id \notin Range(PartsOrder)
                /\ own >= 0
                /\ Without(PartsOrderAfter, <<new.id>>) = PartsOrder
                /\ k = IF later = {} THEN Len(scores[cur]) + 1 ELSE Min(later)
                /\ InMasterOrder(scores'[cur'])]_vars

\* The excerpt that held the second part of the three of the master score
\* was given the first: it stands before the second.
C33_Witness ==
    /\ cur = 1
    /\ steps = 1
    /\ lastOp.op = "setPartVisible"
    /\ Len(scores[Master]) = 3
    /\ PartsOrder = <<0, 1>>

\* Staff::show of the staff after the step.
StaffShowAfter(staffId) ==
    LET parts == scores'[cur']
        i == Min({j \in DOMAIN parts : staffId \in Range(parts[j].staves)})
    IN parts[i].show /\ staffs'[staffId].visible

\* C34: after setStaffVisible(staffId, visible) on a staff of the score,
\* what the guard of the operation reads of the staff (Staff::show) equals
\* visible, so that the same call made again returns at its guard.
C34_SetStaffVisibleReachesItsGuard ==
    [][lastOp'.op = "setStaffVisible"
       => \A staffId \in DOMAIN staffs, visible \in BOOLEAN :
             setStaffVisible(staffId, visible)
             => /\ staffId \in DOMAIN staffs'
                /\ StaffShowAfter(staffId) = visible]_vars

====
